---- MODULE Spec2Model ----
(***************************************************************************)
(* PopcornVault: the catalog store (internal/store/postgres.go), the      *)
(* read-through cache decorator in front of it (CachedStore) and the       *)
(* reconciliation run service.Ingest (internal/service/ingest.go).         *)
(*                                                                         *)
(* Tables are functions from row id to row.  NULL columns and nil Go       *)
(* pointers are the string NULL for text columns and 0 for id columns      *)
(* (ids are drawn from sequences that start at 1).                         *)
(***************************************************************************)
EXTENDS Integers, Sequences, FiniteSets, TLC

VARIABLES
    sources,      \* table sources:  id -> [name, url, userAgent, enabled, lastUpdated]
    groups,       \* table groups:   id -> [name, image, sourceId]
    channels,     \* table channels: id -> [name, url, image, mediaType, sourceId, groupId, favorite, embedding]
    headers,      \* table channel_http_headers: channel id -> header value
    seqs,         \* the id sequences of the three tables and the clock behind NOW()
    cache,        \* the Redis key space used by CachedStore: key -> cached value
    run,          \* service.Ingest invocations: process -> locals and position
    reads,        \* CachedStore reads in flight: reader -> key, fetched value, position
    started,      \* number of Ingest invocations started so far
    last,         \* history: the last Ingest that returned success, until another write
    call,         \* the last store call made outside a run: arguments, tables before, result
    writes,       \* number of write requests served by SpecCache so far
    lookups,      \* history: the filtered reads served, each with the cache key it used
    locks,        \* the Redis keys written by TryLock: key -> [token, ttl left]
    unlocks,      \* the unlock functions TryLock has returned: [caller, key, token]
    tokens,       \* number of tokens randomToken has produced
    lockcall,     \* history: the last TryLock or unlock call, with the keys before and after
    tasks,        \* embedding runs (generateEmbeddings, RefreshEmbeddings), in start order
    shutdown,     \* whether SIGINT/SIGTERM has cancelled the process context
    queue,        \* the Redis list popcornvault:jobs:embeddings, leftmost element first
    worker,       \* runEmbeddingWorker: position, seconds waited, the run it is in
    pushed,       \* history: the jobs Enqueue has pushed, in order
    popped        \* history: the jobs Dequeue has returned, in order: push number, job,
                  \* elements left in the list, run made for it

\* The catalog, its cache and the requests on them.
core == <<sources, groups, channels, headers, seqs, cache, run, reads, started, last, call, writes>>

filterVars == <<lookups>>
lockVars == <<locks, unlocks, tokens, lockcall>>
embVars == <<tasks, shutdown>>
queueVars == <<queue, worker, pushed, popped>>

\* What the catalog requests never touch.
ext == <<filterVars, lockVars, embVars, queueVars>>

vars == <<sources, groups, channels, headers, seqs, cache, run, reads, started, last, call, writes,
          lookups, locks, unlocks, tokens, lockcall, tasks, shutdown,
          queue, worker, pushed, popped>>

-----------------------------------------------------------------------------
(* Bounds *)

MaxFeed == 2      \* longest fetched feed, in entries
MaxRuns == 2      \* Ingest invocations in one behaviour
MaxWrites == 2    \* write requests beside the Ingest of SpecCache

NULL == "<nil>"

Procs == {1, 2}       \* request goroutines that may run Ingest
Readers == {1}        \* request goroutines that read through the cache

\* models/constants.go
MediaTypeLivestream == 0
MediaTypeMovie == 1

\* fetcher.mediaTypeFromURL: .mp4 and .mkv are movies, everything else a livestream
mediaTypeFromURL(url) ==
    IF url \in {"u2.mp4"} THEN MediaTypeMovie ELSE MediaTypeLivestream

\* A fetcher.ParsedEntry as ParseM3U builds it: Group and Image are nil or
\* non-empty (matchFirstPtr), Favorite is the zero value, MediaType follows the URL.
ParsedEntry(name, url, group, image, hdr) ==
    [Name |-> name, URL |-> url, Group |-> group, Image |-> image,
     MediaType |-> mediaTypeFromURL(url), Favorite |-> FALSE, Headers |-> hdr]

\* The entries a feed is made of.  e1 and e2 share the key (a, u1) and differ in
\* group, image and headers; e3 shares the name with e1 and differs in URL.
Entries ==
    { ParsedEntry("a", "u1", "News", "i1", NULL),
      ParsedEntry("a", "u1", "Kids", NULL, "h1"),
      ParsedEntry("a", "u2.mp4", NULL, "i2", NULL),
      ParsedEntry("b", "u1", "News", NULL, NULL) }

RECURSIVE SeqsUpTo(_, _)
SeqsUpTo(S, n) ==
    IF n = 0 THEN { <<>> }
    ELSE LET shorter == SeqsUpTo(S, n - 1)
         IN  shorter \cup { Append(s, x) : s \in { t \in shorter : Len(t) = n - 1 }, x \in S }

Feeds == SeqsUpTo(Entries, MaxFeed)

Range(s) == { s[i] : i \in 1..Len(s) }

-----------------------------------------------------------------------------
(* The Postgres store: each operator is one SQL statement of postgres.go,   *)
(* as a function of the tables it reads to the table it writes.            *)

SourceByName(srcs, name) == { id \in DOMAIN srcs : srcs[id].name = name }

\* An upsert returns the id of its RETURNING clause and the table it leaves.
Upserted(id, rows) == [id |-> id, rows |-> rows]

\* An upsert that also re-enables the row it finds.
CreateOrGetSourceEnables(srcs, nextId, name, url, userAgent) ==
    LET ua == IF userAgent = "" THEN NULL ELSE userAgent
    IN  IF SourceByName(srcs, name) = {}
        THEN Upserted(nextId,
                [i \in DOMAIN srcs \cup {nextId} |->
                    IF i = nextId
                    THEN [name |-> name, url |-> url, userAgent |-> ua,
                          enabled |-> TRUE, lastUpdated |-> 0]
                    ELSE srcs[i]])
        ELSE LET id == CHOOSE x \in SourceByName(srcs, name) : TRUE
             IN  Upserted(id, [srcs EXCEPT ![id].url = url, ![id].userAgent = ua,
                                           ![id].enabled = TRUE])

\* An upsert that also touches last_updated of the row it finds.
CreateOrGetSourceStamps(srcs, nextId, name, url, userAgent) ==
    LET ua == IF userAgent = "" THEN NULL ELSE userAgent
    IN  IF SourceByName(srcs, name) = {}
        THEN Upserted(nextId,
                [i \in DOMAIN srcs \cup {nextId} |->
                    IF i = nextId
                    THEN [name |-> name, url |-> url, userAgent |-> ua,
                          enabled |-> TRUE, lastUpdated |-> 0]
                    ELSE srcs[i]])
        ELSE LET id == CHOOSE x \in SourceByName(srcs, name) : TRUE
             IN  Upserted(id, [srcs EXCEPT ![id].url = url, ![id].userAgent = ua,
                                           ![id].lastUpdated = @ + 1])

\* INSERT INTO sources (name, source_type, url, user_agent, enabled)
\*   VALUES ($1, $2, $3, NULLIF($4,''), true)
\*   ON CONFLICT (name) DO UPDATE SET url, user_agent RETURNING id
CreateOrGetSource(srcs, nextId, name, url, userAgent) ==
    LET ua == IF userAgent = "" THEN NULL ELSE userAgent
    IN  IF SourceByName(srcs, name) = {}
        THEN Upserted(nextId,
                [i \in DOMAIN srcs \cup {nextId} |->
                    IF i = nextId
                    THEN [name |-> name, url |-> url, userAgent |-> ua,
                          enabled |-> TRUE, lastUpdated |-> 0]
                    ELSE srcs[i]])
        ELSE LET id == CHOOSE x \in SourceByName(srcs, name) : TRUE
             IN  Upserted(id, [srcs EXCEPT ![id].url = url, ![id].userAgent = ua])

GroupByKey(grps, name, sourceId) ==
    { id \in DOMAIN grps : grps[id].name = name /\ grps[id].sourceId = sourceId }

\* INSERT INTO groups (name, image, source_id) VALUES ($1, $2, $3)
\*   ON CONFLICT (name, source_id)
\*   DO UPDATE SET image = COALESCE(EXCLUDED.image, groups.image) RETURNING id
GetOrCreateGroup(grps, nextId, sourceId, name, image) ==
    IF GroupByKey(grps, name, sourceId) = {}
    THEN Upserted(nextId,
            [i \in DOMAIN grps \cup {nextId} |->
                IF i = nextId THEN [name |-> name, image |-> image, sourceId |-> sourceId]
                ELSE grps[i]])
    ELSE LET id == CHOOSE x \in GroupByKey(grps, name, sourceId) : TRUE
         IN  Upserted(id, [grps EXCEPT ![id].image = IF image # NULL THEN image ELSE @])

ChannelByKey(chs, name, sourceId, url) ==
    { id \in DOMAIN chs :
        chs[id].name = name /\ chs[id].sourceId = sourceId /\ chs[id].url = url }

\* The row INSERT INTO channels writes for a models.Channel; embedding is not
\* among the inserted columns.
InsertedChannel(ch) ==
    [name |-> ch.Name, url |-> ch.URL, image |-> ch.Image, mediaType |-> ch.MediaType,
     sourceId |-> ch.SourceID, groupId |-> ch.GroupID, favorite |-> ch.Favorite,
     embedding |-> NULL]

\* Mutant of UpsertChannel: the conflict branch rewrites the whole row, as
\* INSERT OR REPLACE would, favorite and embedding included.
UpsertChannelRewritesRow(chs, nextId, ch) ==
    IF ChannelByKey(chs, ch.Name, ch.SourceID, ch.URL) = {}
    THEN Upserted(nextId,
            [i \in DOMAIN chs \cup {nextId} |->
                IF i = nextId THEN InsertedChannel(ch) ELSE chs[i]])
    ELSE LET id == CHOOSE x \in ChannelByKey(chs, ch.Name, ch.SourceID, ch.URL) : TRUE
         IN  Upserted(id, [chs EXCEPT ![id] = InsertedChannel(ch)])

\* Mutant of UpsertChannel: delete the conflicting row and insert a new one.
UpsertChannelRecreates(chs, nextId, ch) ==
    LET old == ChannelByKey(chs, ch.Name, ch.SourceID, ch.URL)
    IN  Upserted(nextId,
            [i \in (DOMAIN chs \ old) \cup {nextId} |->
                IF i = nextId THEN InsertedChannel(ch) ELSE chs[i]])

\* INSERT INTO channels (name, image, url, media_type, source_id, group_id, favorite)
\*   ON CONFLICT (name, source_id, url) DO UPDATE SET image, media_type, group_id
\*   RETURNING id
UpsertChannel(chs, nextId, ch) ==
    IF ChannelByKey(chs, ch.Name, ch.SourceID, ch.URL) = {}
    THEN Upserted(nextId,
            [i \in DOMAIN chs \cup {nextId} |->
                IF i = nextId THEN InsertedChannel(ch) ELSE chs[i]])
    ELSE LET id == CHOOSE x \in ChannelByKey(chs, ch.Name, ch.SourceID, ch.URL) : TRUE
         IN  Upserted(id, [chs EXCEPT ![id].image = ch.Image,
                                      ![id].mediaType = ch.MediaType,
                                      ![id].groupId = ch.GroupID])

\* INSERT INTO channel_http_headers ... ON CONFLICT (channel_id) DO UPDATE SET ...
UpsertChannelHeaders(hdrs, channelID, h) ==
    [i \in DOMAIN hdrs \cup {channelID} |-> IF i = channelID THEN h ELSE hdrs[i]]

\* Mutant of StaleChannels: the temp-table branch deletes nothing.
StaleChannelsOnlyWipes(chs, sourceID, keepIDs) ==
    IF Len(keepIDs) = 0
    THEN { id \in DOMAIN chs : chs[id].sourceId = sourceID }
    ELSE {}

\* Mutant of StaleChannels: no special case for an empty keepIDs, and the
\* anti-join against an empty temp table deletes nothing.
StaleChannelsNoWipe(chs, sourceID, keepIDs) ==
    IF Len(keepIDs) = 0 THEN {}
    ELSE { id \in DOMAIN chs : chs[id].sourceId = sourceID /\ id \notin Range(keepIDs) }

\* Mutant of StaleChannels: the wipe forgets WHERE source_id = $1.
StaleChannelsWipesAll(chs, sourceID, keepIDs) ==
    IF Len(keepIDs) = 0
    THEN DOMAIN chs
    ELSE { id \in DOMAIN chs : chs[id].sourceId = sourceID /\ id \notin Range(keepIDs) }

\* The ids RemoveStaleChannels deletes: with no keepIDs every channel of the
\* source, else the channels of the source whose id is not among keepIDs.
StaleChannels(chs, sourceID, keepIDs) ==
    IF Len(keepIDs) = 0
    THEN { id \in DOMAIN chs : chs[id].sourceId = sourceID }
    ELSE { id \in DOMAIN chs : chs[id].sourceId = sourceID /\ id \notin Range(keepIDs) }

Without(table, ids) == [i \in DOMAIN table \ ids |-> table[i]]

RemoveStaleChannels(chs, sourceID, keepIDs) ==
    Without(chs, StaleChannels(chs, sourceID, keepIDs))

\* Mutant of OrphanedGroups: every group of the source, members or not.
OrphanedGroupsAll(grps, chs, sourceID) ==
    { g \in DOMAIN grps : grps[g].sourceId = sourceID }

\* DELETE FROM groups WHERE source_id = $1 AND id NOT IN
\*   (SELECT DISTINCT group_id FROM channels WHERE source_id = $1 AND group_id IS NOT NULL)
OrphanedGroups(grps, chs, sourceID) ==
    { g \in DOMAIN grps :
        /\ grps[g].sourceId = sourceID
        /\ g \notin { chs[c].groupId : c \in { x \in DOMAIN chs :
                        chs[x].sourceId = sourceID /\ chs[x].groupId # 0 } } }

RemoveOrphanedGroups(grps, chs, sourceID) ==
    Without(grps, OrphanedGroups(grps, chs, sourceID))

\* UPDATE sources SET last_updated = NOW() WHERE id = $1
UpdateSourceLastUpdated(srcs, sourceID, now) ==
    [i \in DOMAIN srcs |-> IF i = sourceID THEN [srcs[i] EXCEPT !.lastUpdated = now]
                           ELSE srcs[i]]

\* UPDATE channels SET favorite = $1 WHERE id = $2
ToggleChannelFavorite(chs, channelID, favorite) ==
    [i \in DOMAIN chs |-> IF i = channelID THEN [chs[i] EXCEPT !.favorite = favorite]
                          ELSE chs[i]]

\* A StoreEmbeddings without the length check: it writes the positions both
\* lists have.
RECURSIVE StoreEmbeddingsUnchecked(_, _, _)
StoreEmbeddingsUnchecked(chs, channelIDs, embeddings) ==
    IF Len(channelIDs) = 0 \/ Len(embeddings) = 0 THEN chs
    ELSE LET id == Head(channelIDs)
             one == [i \in DOMAIN chs |->
                        IF i = id THEN [chs[i] EXCEPT !.embedding = Head(embeddings)]
                        ELSE chs[i]]
         IN  StoreEmbeddingsUnchecked(one, Tail(channelIDs), Tail(embeddings))

\* A StoreEmbeddings that writes with INSERT ... ON CONFLICT (id) DO UPDATE: an
\* id with no row gets one.
RECURSIVE StoreEmbeddingsUpserts(_, _, _)
StoreEmbeddingsUpserts(chs, channelIDs, embeddings) ==
    IF Len(channelIDs) # Len(embeddings) \/ Len(channelIDs) = 0 THEN chs
    ELSE LET id == Head(channelIDs)
             blank == [name |-> "", url |-> "", image |-> NULL,
                       mediaType |-> MediaTypeLivestream, sourceId |-> 0, groupId |-> 0,
                       favorite |-> FALSE, embedding |-> NULL]
             one == [i \in DOMAIN chs \cup {id} |->
                        IF i = id
                        THEN [(IF i \in DOMAIN chs THEN chs[i] ELSE blank)
                                 EXCEPT !.embedding = Head(embeddings)]
                        ELSE chs[i]]
         IN  StoreEmbeddingsUpserts(one, Tail(channelIDs), Tail(embeddings))

\* StoreEmbeddings: one UPDATE channels SET embedding = $1 WHERE id = $2 per
\* position, after the length check; an id with no row updates nothing.
RECURSIVE StoreEmbeddings(_, _, _)
StoreEmbeddings(chs, channelIDs, embeddings) ==
    IF Len(channelIDs) # Len(embeddings) \/ Len(channelIDs) = 0 THEN chs
    ELSE LET id == Head(channelIDs)
             one == [i \in DOMAIN chs |->
                        IF i = id THEN [chs[i] EXCEPT !.embedding = Head(embeddings)]
                        ELSE chs[i]]
         IN  StoreEmbeddings(one, Tail(channelIDs), Tail(embeddings))

-----------------------------------------------------------------------------
(* Reads of the Postgres store.  A read returns [err, val].                *)

ErrNotFound == "not found"
Ok(v) == [err |-> NULL, val |-> v]
Failed(e) == [err |-> e, val |-> NULL]

\* SELECT ... FROM sources WHERE id = $1
PgGetSourceByID(srcs, sourceID) ==
    IF sourceID \in DOMAIN srcs
    THEN Ok([id |-> sourceID, row |-> srcs[sourceID]])
    ELSE Failed(ErrNotFound)

\* g.name of SELECT ... FROM channels c LEFT JOIN groups g ON c.group_id = g.id
GroupNameOf(grps, groupId) ==
    IF groupId \in DOMAIN grps THEN grps[groupId].name ELSE NULL

ChannelRow(chs, grps, id) ==
    [id |-> id, row |-> chs[id], groupName |-> GroupNameOf(grps, chs[id].groupId)]

PgGetChannelByID(chs, grps, channelID) ==
    IF channelID \in DOMAIN chs THEN Ok(ChannelRow(chs, grps, channelID))
    ELSE Failed(ErrNotFound)

\* SELECT id, name, image, source_id FROM groups [WHERE source_id = $1] ORDER BY name.
\* sourceID 0 is the nil pointer.  The rows are kept as a set: the order is
\* fixed by the rows themselves.
PgListGroups(grps, sourceID) ==
    Ok({ [id |-> g, row |-> grps[g]] :
            g \in { x \in DOMAIN grps : sourceID = 0 \/ grps[x].sourceId = sourceID } })

\* A *T field of store.ChannelFilter: the address the pointer holds (0 = nil)
\* and the value it points to.
NilPtr == [addr |-> 0, val |-> 0]
Ptr(a, v) == [addr |-> a, val |-> v]

NoFilter ==
    [SourceID |-> NilPtr, GroupID |-> NilPtr, MediaType |-> NilPtr,
     Favorite |-> NilPtr, Search |-> "", Limit |-> 0, Offset |-> 0]

\* The WHERE clause SemanticSearch and ListChannels build from the non-nil fields.
MatchesFilter(c, f) ==
    /\ f.SourceID.addr # 0 => c.sourceId = f.SourceID.val
    /\ f.GroupID.addr # 0 => c.groupId = f.GroupID.val
    /\ f.MediaType.addr # 0 => c.mediaType = f.MediaType.val
    /\ f.Favorite.addr # 0 => c.favorite = f.Favorite.val

\* 1 - (c.embedding <=> $1), on abstract vectors: 1 for the same vector, else 0.
Similarity(v, queryVec) == IF v = queryVec THEN 1 ELSE 0

\* SELECT ..., 1 - (c.embedding <=> $1) FROM channels c LEFT JOIN groups g ...
\*   WHERE c.embedding IS NOT NULL AND <filter> ORDER BY c.embedding <=> $1 LIMIT n.
\* Kept as the set of result rows: the model never holds as many channels as the
\* smallest effective limit (50), and the rank is a function of the rows.
PgSemanticSearch(chs, grps, queryVec, f) ==
    Ok({ [Channel |-> ChannelRow(chs, grps, c),
          Similarity |-> Similarity(chs[c].embedding, queryVec)] :
            c \in { x \in DOMAIN chs :
                      chs[x].embedding # NULL /\ MatchesFilter(chs[x], f) } })

-----------------------------------------------------------------------------
(* CachedStore: the cache key space and its invalidation helpers.          *)

\* filterHash: sha256 of fmt.Sprintf("%v|%v|%v|%v|%s|%d|%d", ...) over the filter.
\* %v of a pointer field prints the address it holds, not the value behind it.
\* The hash is taken as injective on the formatted text.
filterHash(f) ==
    [SourceID |-> f.SourceID.addr, GroupID |-> f.GroupID.addr,
     MediaType |-> f.MediaType.addr, Favorite |-> f.Favorite.addr,
     Search |-> f.Search, Limit |-> f.Limit, Offset |-> f.Offset]

NoHash == filterHash(NoFilter)

\* vecHash: sha256 of fmt.Sprintf("%v", v): a function of the vector's values.
vecHash(v) == v

Key(fam, id, vh, fh) == [fam |-> fam, id |-> id, vec |-> vh, flt |-> fh]
SourceKey(id) == Key("source", id, NULL, NoHash)             \* source:{id}
SourcesAllKey == Key("sources", 0, NULL, NoHash)             \* sources:all
ChannelKey(id) == Key("channel", id, NULL, NoHash)           \* channel:{id}
GroupsKey(sid) == Key("groups", sid, NULL, NoHash)           \* groups:{id}, groups:all (0)
SearchKey(v, f) == Key("search", 0, vecHash(v), filterHash(f))  \* search:{vecHash}:{filterHash}

\* cache.Del on exact keys
invalidate(c, keys) == [k \in DOMAIN c \ keys |-> c[k]]

\* cache.DelPattern on "<family>:*" patterns: every key of those families.
\* "channel:*" does not match a channels:{hash} key, nor "channels:*" a channel:{id} key.
invalidatePattern(c, fams) == [k \in { x \in DOMAIN c : x.fam \notin fams } |-> c[k]]

-----------------------------------------------------------------------------
(* service.Ingest, one action per store call.                              *)

NoRows == [i \in {} |-> 0]
NoLast == [name |-> NULL, entries |-> <<>>]

\* The tables as one value: what a run found when it started.
Snapshot == [sources |-> sources, groups |-> groups, channels |-> channels,
             headers |-> headers]
NoSnapshot == [sources |-> NoRows, groups |-> NoRows, channels |-> NoRows,
               headers |-> NoRows]

NoCall == [op |-> "none", sourceID |-> 0, channelID |-> 0, favorite |-> FALSE,
           keepIDs |-> <<>>, before |-> NoSnapshot, ret |-> 0,
           channelIDs |-> <<>>, embeddings |-> <<>>, err |-> NULL, args |-> <<>>,
           filter |-> NoFilter, got |-> NoRows, faults |-> {}]

IdleRun ==
    [pc |-> "idle", sourceName |-> "", m3uURL |-> "", userAgent |-> "",
     entries |-> <<>>, sourceID |-> 0, i |-> 1, keepIDs |-> <<>>,
     groupIDs |-> NoRows, GroupID |-> 0, cid |-> 0, channelCount |-> 0,
     err |-> NULL, retSourceID |-> 0, retCount |-> 0,
     pre |-> NoSnapshot, prev |-> NoLast, ops |-> <<>>]

Idle(p) == run[p].pc = "idle"

\* The run with one more call that returned without an error; ops lists them
\* in the order they returned.
Called(r, op) == [r EXCEPT !.ops = Append(@, op)]

\* return sourceID, channelCount, err
Return(r, sourceID, channelCount, err) ==
    [r EXCEPT !.pc = "done", !.retSourceID = sourceID, !.retCount = channelCount,
              !.err = err]

\* Ingest is called (ingest.go:116-123): the URL check and the default name.
Begin(p, sourceName, m3uURL, userAgent) ==
    /\ Idle(p)
    /\ started < MaxRuns
    /\ started' = started + 1
    /\ LET r == [IdleRun EXCEPT !.sourceName = IF sourceName = "" THEN "m3u" ELSE sourceName,
                                !.m3uURL = m3uURL, !.userAgent = userAgent,
                                !.pre = Snapshot, !.prev = last]
       IN  run' = [run EXCEPT ![p] =
                     IF m3uURL = "" THEN Return(r, 0, 0, "m3u URL is required")
                     ELSE [r EXCEPT !.pc = "fetch"]]
    /\ UNCHANGED <<sources, groups, channels, headers, seqs, cache, reads, last, call, writes, ext>>

\* fetcher.FetchM3U returned the parsed entries of the feed (ingest.go:131).
FetchOK(p, feed) ==
    /\ run[p].pc = "fetch"
    /\ run' = [run EXCEPT ![p] = Called([@ EXCEPT !.entries = feed, !.pc = "source"],
                                         "FetchM3U")]
    /\ UNCHANGED <<sources, groups, channels, headers, seqs, cache, reads, started, last, call, writes, ext>>

\* A failed fetch that returns after the source row was upserted.
FetchFailAfterSource(p) ==
    LET r == run[p]
        up == CreateOrGetSource(sources, seqs.source, r.sourceName, r.m3uURL, r.userAgent)
    IN  /\ r.pc = "fetch"
        /\ sources' = up.rows
        /\ seqs' = [seqs EXCEPT !.source = IF up.id = @ THEN @ + 1 ELSE @]
        /\ run' = [run EXCEPT ![p] = Return(@, 0, 0, "fetch")]
        /\ UNCHANGED <<groups, channels, headers, cache, reads, started, last, call, writes, ext>>

\* fetcher.FetchM3U failed: network error, status other than 200, scanner error.
FetchFail(p) ==
    /\ run[p].pc = "fetch"
    /\ run' = [run EXCEPT ![p] = Return(@, 0, 0, "fetch")]
    /\ UNCHANGED <<sources, groups, channels, headers, seqs, cache, reads, started, last, call, writes, ext>>

\* s.CreateOrGetSource through CachedStore (ingest.go:138, cached store:147-154).
IngestSource(p) ==
    LET r == run[p]
        up == CreateOrGetSource(sources, seqs.source, r.sourceName, r.m3uURL, r.userAgent)
    IN  /\ r.pc = "source"
        /\ sources' = up.rows
        /\ seqs' = [seqs EXCEPT !.source = IF up.id = @ THEN @ + 1 ELSE @]
        /\ cache' = invalidate(cache, {SourcesAllKey})
        /\ run' = [run EXCEPT ![p] = Called([@ EXCEPT !.sourceID = up.id, !.pc = "loop"],
                                             "CreateOrGetSource")]
        /\ last' = NoLast
        /\ UNCHANGED <<groups, channels, headers, reads, started, call, writes, ext>>

InLoop(r) == r.pc = "loop" /\ r.i <= Len(r.entries)

\* A cancelled run that prunes with the keepIDs it has before it returns.
IngestCancelledPrunes(p) ==
    LET r == run[p]
    IN  /\ InLoop(r)
        /\ channels' = RemoveStaleChannels(channels, r.sourceID, r.keepIDs)
        /\ headers' = Without(headers, StaleChannels(channels, r.sourceID, r.keepIDs))
        /\ run' = [run EXCEPT ![p] = Return(@, r.sourceID, r.channelCount, "ingest cancelled")]
        /\ UNCHANGED <<sources, groups, seqs, cache, reads, started, last, call, writes, ext>>

\* ctx.Err() at the top of an iteration reports cancellation (ingest.go:154-156).
IngestCancelled(p) ==
    LET r == run[p]
    IN  /\ InLoop(r)
        /\ run' = [run EXCEPT ![p] = Return(@, r.sourceID, r.channelCount, "ingest cancelled")]
        /\ UNCHANGED <<sources, groups, channels, headers, seqs, cache, reads, started, last, call, writes, ext>>

\* Group resolution of entry i (ingest.go:158-173): none, the run's memo, or
\* s.GetOrCreateGroup, which CachedStore passes through (cached store:237-239).
IngestGroup(p) ==
    LET r == run[p]
        e == r.entries[r.i]
        hasGroup == e.Group # NULL /\ e.Group # ""
        memo == hasGroup /\ e.Group \in DOMAIN r.groupIDs
        up == GetOrCreateGroup(groups, seqs.group, r.sourceID, e.Group, e.Image)
        gid == up.id
    IN  /\ InLoop(r)
        /\ IF hasGroup /\ ~memo
           THEN /\ groups' = up.rows
                /\ seqs' = [seqs EXCEPT !.group = IF gid = @ THEN @ + 1 ELSE @]
                /\ run' = [run EXCEPT ![p] =
                             Called([@ EXCEPT !.groupIDs =
                                        [g \in DOMAIN r.groupIDs \cup {e.Group} |->
                                            IF g = e.Group THEN gid ELSE r.groupIDs[g]],
                                      !.GroupID = gid, !.pc = "channel"],
                                    "GetOrCreateGroup")]
                /\ last' = NoLast
           ELSE /\ run' = [run EXCEPT ![p].GroupID = IF memo THEN r.groupIDs[e.Group] ELSE 0,
                                      ![p].pc = "channel"]
                /\ UNCHANGED <<groups, seqs, last, call, writes, ext>>
        /\ UNCHANGED <<sources, channels, headers, cache, reads, started, call, writes, ext>>

\* The models.Channel the run hands to UpsertChannel for entry i.
EntryChannel(r) ==
    LET e == r.entries[r.i]
    IN  [Name |-> e.Name, URL |-> e.URL, Image |-> e.Image, MediaType |-> e.MediaType,
         SourceID |-> r.sourceID, GroupID |-> r.GroupID, Favorite |-> e.Favorite]

\* The end of iteration i: channelCount++ and the next entry.
NextEntry(r) == [r EXCEPT !.channelCount = @ + 1, !.i = @ + 1, !.pc = "loop"]

\* An upsert step that keeps each id once: keepIDs as a set of ids.
IngestChannelKeepsOnce(p) ==
    LET r == run[p]
        ch == EntryChannel(r)
        up == UpsertChannel(channels, seqs.channel, ch)
        cid == up.id
        kept == Called([r EXCEPT !.keepIDs = IF cid \in Range(@) THEN @ ELSE Append(@, cid),
                                 !.cid = cid], "UpsertChannel")
    IN  /\ r.pc = "channel"
        /\ channels' = up.rows
        /\ seqs' = [seqs EXCEPT !.channel = IF cid = @ THEN @ + 1 ELSE @]
        /\ cache' = invalidatePattern(invalidate(cache, {ChannelKey(cid)}), {"channels"})
        /\ run' = [run EXCEPT ![p] =
                     IF r.entries[r.i].Headers # NULL THEN [kept EXCEPT !.pc = "headers"]
                     ELSE NextEntry(kept)]
        /\ last' = NoLast
        /\ UNCHANGED <<sources, groups, headers, reads, started, call, writes, ext>>

\* s.UpsertChannel through CachedStore (ingest.go:175-179, cached store:181-190).
IngestChannel(p) ==
    LET r == run[p]
        ch == EntryChannel(r)
        up == UpsertChannel(channels, seqs.channel, ch)
        cid == up.id
        kept == Called([r EXCEPT !.keepIDs = Append(@, cid), !.cid = cid], "UpsertChannel")
    IN  /\ r.pc = "channel"
        /\ channels' = up.rows
        /\ seqs' = [seqs EXCEPT !.channel = IF cid = @ THEN @ + 1 ELSE @]
        /\ cache' = invalidatePattern(invalidate(cache, {ChannelKey(cid)}), {"channels"})
        /\ run' = [run EXCEPT ![p] =
                     IF r.entries[r.i].Headers # NULL THEN [kept EXCEPT !.pc = "headers"]
                     ELSE NextEntry(kept)]
        /\ last' = NoLast
        /\ UNCHANGED <<sources, groups, headers, reads, started, call, writes, ext>>

\* s.UpsertChannelHeaders (ingest.go:181-186, cached store:192-194).
IngestHeaders(p) ==
    LET r == run[p]
    IN  /\ r.pc = "headers"
        /\ headers' = UpsertChannelHeaders(headers, r.cid, r.entries[r.i].Headers)
        /\ run' = [run EXCEPT ![p] = NextEntry(Called(r, "UpsertChannelHeaders"))]
        /\ last' = NoLast
        /\ UNCHANGED <<sources, groups, channels, seqs, cache, reads, started, call, writes, ext>>

\* s.RemoveStaleChannels through CachedStore after the loop (ingest.go:199-211,
\* cached store:205-214); the headers of a deleted channel go with it (CASCADE).
IngestStale(p) ==
    LET r == run[p]
        stale == StaleChannels(channels, r.sourceID, r.keepIDs)
    IN  /\ r.pc = "loop" /\ r.i > Len(r.entries)
        /\ channels' = RemoveStaleChannels(channels, r.sourceID, r.keepIDs)
        /\ headers' = Without(headers, stale)
        /\ cache' = IF Cardinality(stale) > 0
                    THEN invalidatePattern(cache, {"channels", "channel"})
                    ELSE cache
        /\ run' = [run EXCEPT ![p] = Called([@ EXCEPT !.pc = "orphans"], "RemoveStaleChannels")]
        /\ last' = NoLast
        /\ UNCHANGED <<sources, groups, seqs, reads, started, call, writes, ext>>

\* A cleanup that removes the orphaned groups in place of the stale channels.
IngestOrphansFirst(p) ==
    LET r == run[p]
    IN  /\ r.pc = "loop" /\ r.i > Len(r.entries)
        /\ groups' = RemoveOrphanedGroups(groups, channels, r.sourceID)
        /\ run' = [run EXCEPT ![p] = Called([@ EXCEPT !.pc = "stamp"], "RemoveOrphanedGroups")]
        /\ last' = NoLast
        /\ UNCHANGED <<sources, channels, headers, seqs, cache, reads, started, call, writes, ext>>

\* s.RemoveOrphanedGroups through CachedStore (ingest.go:218-221, cached store:216-225).
IngestOrphans(p) ==
    LET r == run[p]
        orphans == OrphanedGroups(groups, channels, r.sourceID)
    IN  /\ r.pc = "orphans"
        /\ groups' = RemoveOrphanedGroups(groups, channels, r.sourceID)
        /\ cache' = IF Cardinality(orphans) > 0 THEN invalidatePattern(cache, {"groups"})
                    ELSE cache
        /\ run' = [run EXCEPT ![p] = Called([@ EXCEPT !.pc = "stamp"], "RemoveOrphanedGroups")]
        /\ last' = NoLast
        /\ UNCHANGED <<sources, channels, headers, seqs, reads, started, call, writes, ext>>

\* s.UpdateSourceLastUpdated through CachedStore, then the successful return
\* (ingest.go:226-254, cached store:173-179).
IngestStamp(p) ==
    LET r == run[p]
    IN  /\ r.pc = "stamp"
        /\ sources' = UpdateSourceLastUpdated(sources, r.sourceID, seqs.now)
        /\ seqs' = [seqs EXCEPT !.now = @ + 1]
        /\ cache' = invalidate(cache, {SourceKey(r.sourceID), SourcesAllKey})
        /\ run' = [run EXCEPT ![p] = Return(Called(@, "UpdateSourceLastUpdated"),
                                             r.sourceID, r.channelCount, NULL)]
        /\ last' = [name |-> r.sourceName, entries |-> r.entries]
        /\ UNCHANGED <<groups, channels, headers, reads, started, call, writes, ext>>

\* A store call of the run returns an error and has changed nothing: the run
\* returns (0, 0, err) from the upsert pass and (sourceID, channelCount, err)
\* from the cleanup (ingest.go:139-141, 167-169, 176-178, 182-184, 209-211,
\* 219-221, 226-228).
IngestStoreError(p) ==
    LET r == run[p]
        e == r.entries[r.i]
    IN  /\ \/ r.pc \in {"source", "channel", "headers", "orphans", "stamp"}
           \/ r.pc = "loop" /\ r.i > Len(r.entries)
           \/ InLoop(r) /\ e.Group # NULL /\ e.Group # "" /\ e.Group \notin DOMAIN r.groupIDs
        /\ run' = [run EXCEPT ![p] =
                     IF r.pc \in {"orphans", "stamp"} \/ (r.pc = "loop" /\ r.i > Len(r.entries))
                     THEN Return(@, r.sourceID, r.channelCount, "store")
                     ELSE Return(@, 0, 0, "store")]
        /\ UNCHANGED <<sources, groups, channels, headers, seqs, cache, reads, started, last, call, writes, ext>>

\* The caller has the result; the goroutine ends.
IngestReturned(p) ==
    /\ run[p].pc = "done"
    /\ run' = [run EXCEPT ![p] = IdleRun]
    /\ UNCHANGED <<sources, groups, channels, headers, seqs, cache, reads, started, last, call, writes, ext>>

-----------------------------------------------------------------------------
(* Other requests: writes through CachedStore, one action per call.        *)

Vectors == {"v1"}
SearchFilters == {NoFilter}

Quiet == \A p \in Procs : Idle(p)

\* CachedStore.ToggleChannelFavorite (cached store:196-203) over
\* Postgres.ToggleChannelFavorite; a missing id returns ErrNotFound and skips
\* the invalidation.
CachedToggleChannelFavorite(channelID, favorite) ==
    /\ channelID \in DOMAIN channels
    /\ channels' = ToggleChannelFavorite(channels, channelID, favorite)
    /\ cache' = invalidatePattern(invalidate(cache, {ChannelKey(channelID)}), {"channels"})
    /\ last' = NoLast
    /\ UNCHANGED <<sources, groups, headers, seqs, run, reads, started, ext>>

\* CachedStore.StoreEmbeddings (cached store:227-233): the embedding pipeline's write.
CachedStoreEmbeddings(channelIDs, embeddings) ==
    /\ Len(channelIDs) = Len(embeddings)
    /\ channels' = StoreEmbeddings(channels, channelIDs, embeddings)
    /\ cache' = invalidatePattern(cache, {"search"})
    /\ last' = NoLast
    /\ UNCHANGED <<sources, groups, headers, seqs, run, reads, started, ext>>

\* CachedStore.DeleteSource (cached store:164-171) over Postgres.DeleteSource:
\* the groups, channels and headers of the source go with it (ON DELETE CASCADE).
CascadedChannels(sourceID) == { c \in DOMAIN channels : channels[c].sourceId = sourceID }

CachedDeleteSource(sourceID) ==
    /\ sourceID \in DOMAIN sources
    /\ sources' = Without(sources, {sourceID})
    /\ groups' = Without(groups, { g \in DOMAIN groups : groups[g].sourceId = sourceID })
    /\ channels' = Without(channels, CascadedChannels(sourceID))
    /\ headers' = Without(headers, CascadedChannels(sourceID))
    /\ cache' = invalidatePattern(invalidate(cache, {SourceKey(sourceID), SourcesAllKey}),
                                  {"channels", "groups", "search"})
    /\ last' = NoLast
    /\ UNCHANGED <<seqs, run, reads, started, ext>>

-----------------------------------------------------------------------------
(* CachedStore reads.  A hit returns the cached value and changes nothing;  *)
(* a miss reads the inner store, then stores the result: two steps, with    *)
(* other requests in between.                                              *)

\* A reader holds what its inner read returned, under the key it will store it at.
\* raced is history: the reader has stored a value the inner store no longer held.
IdleRead == [pc |-> "idle", got |-> NoRows, raced |-> FALSE]

\* cache.Get missed and the inner read returned res: an error is returned to
\* the caller, a value goes on to cache.Set.
CacheMiss(rd, key, res) ==
    /\ reads[rd].pc = "idle"
    /\ key \notin DOMAIN cache
    /\ res.err = NULL
    /\ reads' = [reads EXCEPT ![rd] = [pc |-> "set", got |-> [k \in {key} |-> res.val],
                                      raced |-> reads[rd].raced]]
    /\ UNCHANGED <<sources, groups, channels, headers, seqs, cache, run, started, last, call, writes, ext>>

\* CachedStore.GetSourceByID (cached store:55-68)
GetSourceByIDMiss(rd, sourceID) ==
    CacheMiss(rd, SourceKey(sourceID), PgGetSourceByID(sources, sourceID))

\* CachedStore.GetChannelByID (cached store:91-104)
GetChannelByIDMiss(rd, channelID) ==
    CacheMiss(rd, ChannelKey(channelID), PgGetChannelByID(channels, groups, channelID))

\* CachedStore.ListGroups (cached store:106-123)
ListGroupsMiss(rd, sourceID) ==
    CacheMiss(rd, GroupsKey(sourceID), PgListGroups(groups, sourceID))

\* CachedStore.SemanticSearch (cached store:130-143)
SemanticSearchMiss(rd, queryVec, filter) ==
    CacheMiss(rd, SearchKey(queryVec, filter),
              PgSemanticSearch(channels, groups, queryVec, filter))

\* What the inner store answers now to the read behind a key.
InnerRead(key) ==
    CASE key.fam = "source" -> PgGetSourceByID(sources, key.id)
      [] key.fam = "channel" -> PgGetChannelByID(channels, groups, key.id)
      [] key.fam = "groups" -> PgListGroups(groups, key.id)
      [] key.fam = "search" ->
            PgSemanticSearch(channels, groups, key.vec,
                             CHOOSE f \in SearchFilters : filterHash(f) = key.flt)

Outdated(got) ==
    \E k \in DOMAIN got :
        LET now == InnerRead(k) IN now.err # NULL \/ now.val # got[k]

\* cache.Set of the value read, then the return to the caller.
CacheSet(rd) ==
    /\ reads[rd].pc = "set"
    /\ cache' = [k \in DOMAIN cache \cup DOMAIN reads[rd].got |->
                    IF k \in DOMAIN reads[rd].got THEN reads[rd].got[k] ELSE cache[k]]
    /\ reads' = [reads EXCEPT ![rd] =
                    [IdleRead EXCEPT !.raced = reads[rd].raced \/ Outdated(reads[rd].got)]]
    /\ UNCHANGED <<sources, groups, channels, headers, seqs, run, started, last, call, writes, ext>>

\* A key reaches its TTL (ttlSource, ttlChannel, ttlGroups, ttlSearch).
Expire(key) ==
    /\ key \in DOMAIN cache
    /\ cache' = invalidate(cache, {key})
    /\ UNCHANGED <<sources, groups, channels, headers, seqs, run, reads, started, last, call, writes, ext>>

\* What a cached read that starts now returns: the cached value on a hit,
\* else the inner store's answer.
CachedRead(key, res) == IF key \in DOMAIN cache THEN Ok(cache[key]) ELSE res

CachedGetSourceByID(id) == CachedRead(SourceKey(id), PgGetSourceByID(sources, id))
CachedGetChannelByID(id) == CachedRead(ChannelKey(id), PgGetChannelByID(channels, groups, id))
CachedListGroups(sid) == CachedRead(GroupsKey(sid), PgListGroups(groups, sid))
CachedSemanticSearch(v, f) ==
    CachedRead(SearchKey(v, f), PgSemanticSearch(channels, groups, v, f))

-----------------------------------------------------------------------------
(* Specifications *)

\* No TryLock or unlock call yet.
NoLockCall ==
    [op |-> NULL, caller |-> 0, key |-> NULL, token |-> 0, ttl |-> 0, ret |-> NULL,
     unlock |-> 0, before |-> <<>>, after |-> <<>>]

\* No filtered read served, no lock taken.
FilterInit == lookups = {}

LockInit ==
    /\ locks = <<>>
    /\ unlocks = {}
    /\ tokens = 0
    /\ lockcall = NoLockCall

\* runEmbeddingWorker at the top of its loop, no job in hand.
IdleWorker ==
    [pc |-> "loop", waited |-> 0, slept |-> 0, errors |-> 0, task |-> 0, ret |-> NULL]

\* An empty job list, the worker not yet in a call.
QueueEmpty ==
    /\ queue = <<>>
    /\ worker = IdleWorker
    /\ pushed = <<>>
    /\ popped = <<>>

\* Nothing outside the catalog has happened yet.
ExtInit ==
    /\ FilterInit
    /\ LockInit
    /\ tasks = <<>>
    /\ shutdown = FALSE
    /\ QueueEmpty

\* A fresh database and an empty cache, no request yet.
CoreInit ==
    /\ sources = NoRows
    /\ groups = NoRows
    /\ channels = NoRows
    /\ headers = NoRows
    /\ seqs = [source |-> 1, group |-> 1, channel |-> 1, now |-> 1]
    /\ cache = NoRows
    /\ run = [p \in Procs |-> IdleRun]
    /\ reads = [rd \in Readers |-> IdleRead]
    /\ started = 0
    /\ last = NoLast
    /\ call = NoCall
    /\ writes = 0

Init ==
    /\ sources = NoRows
    /\ groups = NoRows
    /\ channels = NoRows
    /\ headers = NoRows
    /\ seqs = [source |-> 1, group |-> 1, channel |-> 1, now |-> 1]
    /\ cache = NoRows
    /\ run = [p \in Procs |-> IdleRun]
    /\ reads = [rd \in Readers |-> IdleRead]
    /\ started = 0
    /\ last = NoLast
    /\ call = NoCall
    /\ writes = 0
    /\ ExtInit

SourceNames == {"", "s1"}
M3UURLs == {"", "m1"}
UserAgents == {""}

\* The steps of the Ingest invocation of process p.
IngestStep(p) ==
    \/ IngestSource(p)
    \/ IngestCancelled(p)
    \/ IngestGroup(p)
    \/ IngestChannel(p)
    \/ IngestHeaders(p)
    \/ IngestStale(p)
    \/ IngestOrphans(p)
    \/ IngestStamp(p)
    \/ IngestStoreError(p)
    \/ IngestReturned(p)

\* The writes of other requests, served while no Ingest is in progress.
UserWrite ==
    /\ Quiet /\ started < MaxRuns
    /\ \/ \E id \in DOMAIN channels, fav \in BOOLEAN : CachedToggleChannelFavorite(id, fav)
       \/ \E id \in DOMAIN channels, v \in Vectors : CachedStoreEmbeddings(<<id>>, <<v>>)
       \/ \E id \in DOMAIN sources : CachedDeleteSource(id)
    /\ UNCHANGED <<call, writes, ext>>

\* Spec: the catalog under one request at a time.
Next ==
    \/ \E n \in SourceNames, u \in M3UURLs, ua \in UserAgents : Begin(1, n, u, ua)
    \/ \E feed \in Feeds : FetchOK(1, feed)
    \/ FetchFail(1)
    \/ IngestStep(1)
    \/ UserWrite

Spec == Init /\ [][Next]_vars

-----------------------------------------------------------------------------
(* Properties of a reconciliation run, read off the state in which Ingest   *)
(* has returned: run[p].pre holds the tables the run started from.         *)

Succeeded(p) == run[p].pc = "done" /\ run[p].err = NULL

ChannelsOf(chs, sourceID) == { c \in DOMAIN chs : chs[c].sourceId = sourceID }
GroupsOf(grps, sourceID) == { g \in DOMAIN grps : grps[g].sourceId = sourceID }
KeyOf(c) == <<c.name, c.url>>
FeedKeys(entries) == { <<e.Name, e.URL>> : e \in Range(entries) }

C3_ChannelsEqualFeed ==
    \A p \in Procs : Succeeded(p) =>
        LET mine == ChannelsOf(channels, run[p].sourceID)
        IN  /\ { KeyOf(channels[c]) : c \in mine } = FeedKeys(run[p].entries)
            /\ Cardinality(mine) = Cardinality(FeedKeys(run[p].entries))

\* C3 witness: the run added a channel, kept one and deleted one.
C3_Witness ==
    \E p \in Procs : Succeeded(p) /\
        LET before == ChannelsOf(run[p].pre.channels, run[p].sourceID)
            after == ChannelsOf(channels, run[p].sourceID)
        IN  /\ before \ after # {}
            /\ before \cap after # {}
            /\ after \ before # {}

\* C5: a successful Ingest of an empty feed leaves the source without channels
\* and groups, keeps the source row, stamps its sync time and returns count 0.
C5_EmptyFeedWipes ==
    \A p \in Procs : (Succeeded(p) /\ run[p].entries = <<>>) =>
        /\ ChannelsOf(channels, run[p].sourceID) = {}
        /\ GroupsOf(groups, run[p].sourceID) = {}
        /\ run[p].sourceID \in DOMAIN sources
        /\ sources[run[p].sourceID].name = run[p].sourceName
        /\ sources[run[p].sourceID].lastUpdated = seqs.now - 1
        /\ run[p].retSourceID = run[p].sourceID
        /\ run[p].retCount = 0

\* C5 witness: an empty feed for a source that had channels with headers and groups.
C5_Witness ==
    \E p \in Procs : Succeeded(p) /\ run[p].entries = <<>> /\
        /\ ChannelsOf(run[p].pre.channels, run[p].sourceID) # {}
        /\ GroupsOf(run[p].pre.groups, run[p].sourceID) # {}
        /\ run[p].sourceID \in DOMAIN run[p].pre.sources
        /\ run[p].pre.sources[run[p].sourceID].lastUpdated # 0

\* The last entry of the feed with the key of channel row c.
LastEntryFor(entries, c) ==
    entries[CHOOSE i \in 1..Len(entries) :
                /\ <<entries[i].Name, entries[i].URL>> = KeyOf(c)
                /\ \A j \in (i + 1)..Len(entries) :
                       <<entries[j].Name, entries[j].URL>> # KeyOf(c)]

\* C6: at the end of a successful Ingest every group of the source has a
\* member channel, and every channel whose entry names a group is a member of
\* the group of that name, which is the row that was there before the run if
\* there was one.
C6_NoOrphanGroups ==
    \A p \in Procs : Succeeded(p) =>
        LET r == run[p]
            mine == ChannelsOf(channels, r.sourceID)
        IN  /\ \A g \in GroupsOf(groups, r.sourceID) :
                   \E c \in mine : channels[c].groupId = g
            /\ \A c \in mine :
                   LET e == LastEntryFor(r.entries, channels[c])
                       g == channels[c].groupId
                   IN  IF e.Group = NULL THEN g = 0
                       ELSE /\ g \in GroupsOf(groups, r.sourceID)
                            /\ groups[g].name = e.Group
                            /\ GroupByKey(r.pre.groups, e.Group, r.sourceID) \subseteq {g}

\* C6 witness: of two groups the source had, one lost every entry and is gone,
\* the other kept an entry and is still there.
C6_Witness ==
    \E p \in Procs : Succeeded(p) /\
        LET before == GroupsOf(run[p].pre.groups, run[p].sourceID)
        IN  /\ before \ DOMAIN groups # {}
            /\ before \cap DOMAIN groups # {}
            /\ ChannelsOf(channels, run[p].sourceID) # {}

-----------------------------------------------------------------------------
(* RemoveStaleChannels called on its own, with any keepIDs.                *)

MaxChannels == 3   \* channel rows in the table before the call
MaxKeep == 2       \* longest keepIDs

PruneSources == {1, 2}

\* A channels table: each id in 1..MaxChannels has no row or a row in one of
\* the two sources.
PruneRow(id, sourceID) ==
    [name |-> "c", url |-> ToString(id), image |-> NULL,
     mediaType |-> MediaTypeLivestream, sourceId |-> sourceID, groupId |-> 0,
     favorite |-> FALSE, embedding |-> NULL]

PruneTables ==
    { [id \in { i \in 1..MaxChannels : owner[i] # 0 } |-> PruneRow(id, owner[id])] :
        owner \in [1..MaxChannels -> {0} \cup PruneSources] }

PruneInit ==
    /\ sources = [id \in PruneSources |->
                    [name |-> ToString(id), url |-> "m1", userAgent |-> NULL,
                     enabled |-> TRUE, lastUpdated |-> 0]]
    /\ groups = NoRows
    /\ channels \in PruneTables
    /\ headers = [c \in DOMAIN channels |-> "h1"]
    /\ seqs = [source |-> 3, group |-> 1, channel |-> MaxChannels + 1, now |-> 1]
    /\ cache = NoRows
    /\ run = [p \in Procs |-> IdleRun]
    /\ reads = [rd \in Readers |-> IdleRead]
    /\ started = 0
    /\ last = NoLast
    /\ call = NoCall
    /\ writes = 0
    /\ ExtInit

\* CachedStore.RemoveStaleChannels (cached store:205-214) over
\* Postgres.RemoveStaleChannels (postgres.go:62-125); the result is
\* tag.RowsAffected() of the DELETE.
CallRemoveStaleChannels(sourceID, keepIDs) ==
    LET stale == StaleChannels(channels, sourceID, keepIDs)
    IN  /\ channels' = RemoveStaleChannels(channels, sourceID, keepIDs)
        /\ headers' = Without(headers, stale)
        /\ cache' = IF Cardinality(stale) > 0
                    THEN invalidatePattern(cache, {"channels", "channel"})
                    ELSE cache
        /\ call' = [NoCall EXCEPT !.op = "RemoveStaleChannels", !.sourceID = sourceID,
                                   !.keepIDs = keepIDs, !.before = Snapshot,
                                   !.ret = Cardinality(stale)]
        /\ last' = NoLast
        /\ UNCHANGED <<sources, groups, seqs, run, reads, started, writes, ext>>

\* One call per behaviour: every table is an initial state.
PruneNext ==
    /\ call = NoCall
    /\ \E sourceID \in PruneSources \cup {3}, keepIDs \in SeqsUpTo(1..(MaxChannels + 1), MaxKeep) :
            CallRemoveStaleChannels(sourceID, keepIDs)

SpecPrune == PruneInit /\ [][PruneNext]_vars

Pruned == call.op = "RemoveStaleChannels"

\* C4: RemoveStaleChannels(sourceID, keepIDs) deletes exactly the channels of
\* the source whose id is not in keepIDs, returns N - |keep /\ existing| for the
\* N channels the source had, and deletes no channel of another source.
C4_PruneExact ==
    Pruned =>
        LET before == call.before.channels
            existing == ChannelsOf(before, call.sourceID)
            keep == Range(call.keepIDs)
        IN  /\ DOMAIN channels = DOMAIN before \ (existing \ keep)
            /\ \A c \in DOMAIN channels : channels[c] = before[c]
            /\ call.ret = Cardinality(existing) - Cardinality(keep \cap existing)
            /\ \A c \in DOMAIN before : before[c].sourceId # call.sourceID => c \in DOMAIN channels

\* C4 witness: a keepIDs that names a channel of the source, a channel of the
\* other source and an id with no row, while the source has a channel outside
\* it and the other source has channels outside it too.
C4_Witness ==
    Pruned /\
        LET before == call.before.channels
            existing == ChannelsOf(before, call.sourceID)
            keep == Range(call.keepIDs)
        IN  /\ keep \cap existing # {}
            /\ existing \ keep # {}
            /\ keep \ DOMAIN before # {}
            /\ DOMAIN before \ (existing \cup keep) # {}

-----------------------------------------------------------------------------
(* SpecCache: the catalog behind CachedStore with a reader.  Reads miss,   *)
(* fetch and store in two steps; writes run their inner call and their      *)
(* invalidation before anything else is served.                            *)

CacheEntries ==
    { ParsedEntry("a", "u1", "News", "i1", NULL),
      ParsedEntry("b", "u1", "Kids", NULL, "h1") }

CacheFeeds == { <<e>> : e \in CacheEntries }
CacheSourceNames == {"s1"}
CacheM3UURLs == {"m2"}

\* The writes of other requests, with the call on record.
CacheUserWrite ==
    /\ Quiet
    /\ writes < MaxWrites
    /\ writes' = writes + 1
    /\ \/ \E id \in DOMAIN channels, fav \in BOOLEAN :
            /\ CachedToggleChannelFavorite(id, fav)
            /\ call' = [NoCall EXCEPT !.op = "ToggleChannelFavorite", !.channelID = id,
                                      !.favorite = fav]
       \/ \E id \in DOMAIN channels, v \in Vectors :
            /\ CachedStoreEmbeddings(<<id>>, <<v>>)
            /\ call' = [NoCall EXCEPT !.op = "StoreEmbeddings", !.channelID = id]
       \/ \E id \in DOMAIN sources :
            /\ CachedDeleteSource(id)
            /\ call' = [NoCall EXCEPT !.op = "DeleteSource", !.sourceID = id,
                                      !.before = Snapshot]

CacheReadStep(rd) ==
    \/ \E id \in DOMAIN sources : GetSourceByIDMiss(rd, id)
    \/ \E id \in DOMAIN channels : GetChannelByIDMiss(rd, id)
    \/ \E sid \in {0} \cup DOMAIN sources : ListGroupsMiss(rd, sid)
    \/ \E v \in Vectors, f \in SearchFilters : SemanticSearchMiss(rd, v, f)
    \/ CacheSet(rd)

CacheNext ==
    \/ \E n \in CacheSourceNames, u \in CacheM3UURLs, ua \in UserAgents : Begin(1, n, u, ua)
    \/ \E feed \in CacheFeeds : FetchOK(1, feed)
    \/ FetchFail(1)
    \/ IngestStep(1)
    \/ CacheUserWrite
    \/ \E rd \in Readers : CacheReadStep(rd)
    \/ \E key \in DOMAIN cache : Expire(key)

\* The catalog after Ingest("s1", "m1", "", <one entry a/u1 with no group, image
\* or headers>) has returned and been stamped at time 1; nothing is cached yet.
CacheInit ==
    /\ sources = UpdateSourceLastUpdated(
                    CreateOrGetSource(NoRows, 1, "s1", "m1", "").rows, 1, 1)
    /\ groups = NoRows
    /\ channels = UpsertChannel(NoRows, 1,
                     [Name |-> "a", URL |-> "u1", Image |-> NULL,
                      MediaType |-> mediaTypeFromURL("u1"), SourceID |-> 1,
                      GroupID |-> 0, Favorite |-> FALSE]).rows
    /\ headers = NoRows
    /\ seqs = [source |-> 2, group |-> 1, channel |-> 2, now |-> 2]
    /\ cache = NoRows
    /\ run = [p \in Procs |-> IdleRun]
    /\ reads = [rd \in Readers |-> IdleRead]
    /\ started = MaxRuns - 1
    /\ last = NoLast
    /\ call = NoCall
    /\ writes = 0
    /\ ExtInit

SpecCache == CacheInit /\ [][CacheNext]_vars

-----------------------------------------------------------------------------
(* Cache consistency after a write has returned.                           *)

\* C7: once ToggleChannelFavorite(id, favorite) has returned, a GetChannelByID(id)
\* through the cached store that starts afterwards returns the flag the write
\* set, whatever reads were in flight during the write.
C7_ReadAfterWriteIsFresh ==
    (call.op = "ToggleChannelFavorite" /\ call.channelID \in DOMAIN channels) =>
        LET res == CachedGetChannelByID(call.channelID)
        IN  res.err = NULL /\ res.val.row.favorite = call.favorite

\* No read has stored a value that a write had overtaken: what the cache
\* holds, it holds by the writes' invalidation alone.
NoRace == \A rd \in Readers : ~reads[rd].raced

\* C8: once DeleteSource(S) has returned, and with no read having raced a
\* write, GetChannelByID through the cached store returns not-found for every
\* channel that belonged to S.
C8_DeletedSourceChannelsNotFound ==
    (call.op = "DeleteSource" /\ NoRace) =>
        \A c \in ChannelsOf(call.before.channels, call.sourceID) :
            CachedGetChannelByID(c).err = ErrNotFound

\* Between the return of CreateOrGetSource and the stamp of the same run.
AfterSourceUpsert(p) == run[p].pc \in {"loop", "channel", "headers", "orphans", "stamp"}

\* C9: with no read having raced a write, once an Ingest has returned success,
\* ListGroups through the cached store lists every group of the source as the
\* store holds it, by source and for all sources; and once CreateOrGetSource
\* has returned, GetSourceByID through the cached store returns the URL and
\* user agent it wrote.
C9_GroupsAndSourceFreshAfterIngest ==
    \A p \in Procs :
        /\ (Succeeded(p) /\ NoRace) =>
              \A sid \in {0, run[p].sourceID} :
                  \A g \in GroupsOf(groups, run[p].sourceID) :
                      [id |-> g, row |-> groups[g]] \in CachedListGroups(sid).val
        /\ (AfterSourceUpsert(p) /\ NoRace) =>
              LET res == CachedGetSourceByID(run[p].sourceID)
              IN  /\ res.err = NULL
                  /\ res.val.row.url = run[p].m3uURL
                  /\ res.val.row.userAgent =
                        (IF run[p].userAgent = "" THEN NULL ELSE run[p].userAgent)

\* C10: with no read having raced a write, a SemanticSearch through the cached
\* store returns only channels the store still holds, with the favorite flag,
\* image, media type and group the store holds for them: no
\* ToggleChannelFavorite, UpsertChannel or RemoveStaleChannels leaves an older
\* result cached.
C10_SearchResultsFresh ==
    NoRace =>
    \A v \in Vectors, f \in SearchFilters :
        \A res \in CachedSemanticSearch(v, f).val :
            /\ res.Channel.id \in DOMAIN channels
            /\ channels[res.Channel.id].favorite = res.Channel.row.favorite
            /\ channels[res.Channel.id].image = res.Channel.row.image
            /\ channels[res.Channel.id].mediaType = res.Channel.row.mediaType
            /\ channels[res.Channel.id].groupId = res.Channel.row.groupId
            /\ GroupNameOf(groups, channels[res.Channel.id].groupId) = res.Channel.groupName

-----------------------------------------------------------------------------
(* The cache keys of the filtered reads, CachedStore.ListChannels and       *)
(* CachedStore.SemanticSearch, over filters as the HTTP handlers build      *)
(* them: every optional field that is present points to a fresh local.     *)

MaxAddr == 2      \* addresses an optional filter field can be allocated at
MaxLookups == 2   \* filtered reads in one behaviour

\* channels:{filterHash}
ChannelsKey(f) == Key("channels", 0, NULL, filterHash(f))

\* The optional fields handleListChannels and handleSearchChannels fill in:
\* absent, or the address of a local holding the parsed query value.
Optional(values) == {NilPtr} \cup { Ptr(a, v) : a \in 1..MaxAddr, v \in values }

FilterInputs ==
    { [SourceID |-> s, GroupID |-> NilPtr, MediaType |-> m, Favorite |-> NilPtr,
       Search |-> q, Limit |-> l, Offset |-> 0] :
        s \in Optional({1, 2}),
        m \in Optional({MediaTypeLivestream, MediaTypeMovie}),
        q \in {"", "a"}, l \in {0, 10} }

\* CachedStore.ListChannels, first line: the key the read is served under.
ListChannelsLookup(f) ==
    /\ Cardinality(lookups) < MaxLookups
    /\ lookups' = lookups \cup
          {[op |-> "ListChannels", vec |-> NULL, filter |-> f, key |-> ChannelsKey(f)]}
    /\ UNCHANGED <<core, lockVars, embVars, queueVars>>

\* CachedStore.SemanticSearch, first line: the key the read is served under.
SemanticSearchLookup(v, f) ==
    /\ Cardinality(lookups) < MaxLookups
    /\ lookups' = lookups \cup
          {[op |-> "SemanticSearch", vec |-> v, filter |-> f, key |-> SearchKey(v, f)]}
    /\ UNCHANGED <<core, lockVars, embVars, queueVars>>

FilterNext ==
    \/ \E f \in FilterInputs : ListChannelsLookup(f)
    \/ \E v \in Vectors, f \in FilterInputs : SemanticSearchLookup(v, f)

SpecFilter == Init /\ [][FilterNext]_vars

\* What a filter asks for: per optional field whether it is present and, if
\* so, the value behind the pointer.
Deref(ptr) == [present |-> ptr.addr # 0, val |-> IF ptr.addr # 0 THEN ptr.val ELSE 0]

FilterValues(f) ==
    [SourceID |-> Deref(f.SourceID), GroupID |-> Deref(f.GroupID),
     MediaType |-> Deref(f.MediaType), Favorite |-> Deref(f.Favorite),
     Search |-> f.Search, Limit |-> f.Limit, Offset |-> f.Offset]

\* C11: two filtered reads of the same kind (and, for a search, of the same
\* query vector) use the same cache key exactly when their filters hold equal
\* values, wherever the optional fields are allocated.
C11_KeyIsFunctionOfFilterValues ==
    \A a, b \in lookups :
        (a.op = b.op /\ a.vec = b.vec) =>
            ((FilterValues(a.filter) = FilterValues(b.filter)) <=> (a.key = b.key))

-----------------------------------------------------------------------------
(* The distributed lock of internal/cache/lock.go: a Redis key holding the  *)
(* owner's token, set with SET NX and an expiry, released by a script that  *)
(* compares the token and deletes.  Time passes in ticks.                   *)

MaxTTL == 2       \* longest ttl passed to TryLock, in ticks
MaxLocks == 3     \* TryLock calls in one behaviour

LockCallers == {1, 2}
LockKeys == {"k1", "k2"}

ErrLocked == "lock is already held"
ErrRedis == "cache lock: redis error"

\* SET key token NX PX ttl that overwrites a key that exists.
SetNXOverwrites(lk, key, token, ttl) ==
    [ok |-> TRUE,
     keys |-> [k \in DOMAIN lk \cup {key} |->
                  IF k = key THEN [token |-> token, ttl |-> ttl] ELSE lk[k]]]

\* r.client.SetNX(ctx, key, token, ttl): writes the key, with its expiry, only
\* when the key does not exist; ok tells whether it wrote.
SetNX(lk, key, token, ttl) ==
    IF key \in DOMAIN lk THEN [ok |-> FALSE, keys |-> lk]
    ELSE [ok |-> TRUE,
          keys |-> [k \in DOMAIN lk \cup {key} |->
                       IF k = key THEN [token |-> token, ttl |-> ttl] ELSE lk[k]]]

\* DEL whatever token the key holds.
UnlockScriptDeletesAlways(lk, key, token) == [k \in DOMAIN lk \ {key} |-> lk[k]]

\* unlockScript, run by Redis as one step:
\*   if redis.call("get", KEYS[1]) == ARGV[1] then return redis.call("del", KEYS[1]) end
UnlockScript(lk, key, token) ==
    IF key \in DOMAIN lk /\ lk[key].token = token
    THEN [k \in DOMAIN lk \ {key} |-> lk[k]]
    ELSE lk

\* TryLock(ctx, r, key, ttl) by caller c, Redis answering.
TryLock(c, key, ttl) ==
    /\ tokens < MaxLocks
    /\ LET token == tokens + 1          \* randomToken(): 16 fresh random bytes
           set == SetNX(locks, key, token, ttl)
       IN  /\ tokens' = token
           /\ locks' = set.keys
           /\ unlocks' = IF set.ok
                         THEN unlocks \cup {[caller |-> c, key |-> key, token |-> token]}
                         ELSE unlocks
           /\ lockcall' = [op |-> "TryLock", caller |-> c, key |-> key, token |-> token,
                           ttl |-> ttl, ret |-> IF set.ok THEN NULL ELSE ErrLocked,
                           unlock |-> IF set.ok THEN token ELSE 0,
                           before |-> locks, after |-> set.keys]
    /\ UNCHANGED <<core, filterVars, embVars, queueVars>>

\* TryLock whose SetNX returns an error: the caller gets the wrapped error and
\* no unlock function, whether or not Redis applied the command before the
\* connection failed.
TryLockError(c, key, ttl) ==
    /\ tokens < MaxLocks
    /\ LET token == tokens + 1
       IN  \E applied \in BOOLEAN :
               LET keys == IF applied THEN SetNX(locks, key, token, ttl).keys ELSE locks
               IN  /\ tokens' = token
                   /\ locks' = keys
                   /\ lockcall' = [op |-> "TryLock", caller |-> c, key |-> key,
                                   token |-> token, ttl |-> ttl, ret |-> ErrRedis,
                                   unlock |-> 0, before |-> locks, after |-> keys]
    /\ UNCHANGED <<core, filterVars, embVars, queueVars, unlocks>>

\* A call of an unlock function TryLock returned; it may be called at any
\* time and any number of times.
Unlock(u) ==
    /\ locks' = UnlockScript(locks, u.key, u.token)
    /\ lockcall' = [op |-> "unlock", caller |-> u.caller, key |-> u.key, token |-> u.token,
                    ttl |-> 0, ret |-> NULL, unlock |-> 0,
                    before |-> locks, after |-> locks']
    /\ UNCHANGED <<core, filterVars, embVars, queueVars, unlocks, tokens>>

\* One tick of time: Redis drops the keys whose expiry is reached.
Tick ==
    /\ locks # <<>>
    /\ locks' = [k \in { x \in DOMAIN locks : locks[x].ttl > 1 } |->
                    [locks[k] EXCEPT !.ttl = @ - 1]]
    /\ UNCHANGED <<core, filterVars, embVars, queueVars, unlocks, tokens, lockcall>>

LockNext ==
    \/ \E c \in LockCallers, key \in LockKeys, ttl \in 1..MaxTTL : TryLock(c, key, ttl)
    \/ \E c \in LockCallers, key \in LockKeys, ttl \in 1..MaxTTL : TryLockError(c, key, ttl)
    \/ \E u \in unlocks : Unlock(u)
    \/ Tick

SpecLock == Init /\ [][LockNext]_vars

\* The callers that hold the unexpired lock on key: they were handed an unlock
\* function and the key still holds their token.
Holders(key) ==
    { u \in unlocks : key \in DOMAIN locks /\ locks[key].token = u.token }

\* C12: a TryLock on a key that holds an unreleased, unexpired lock returns
\* ErrLocked (the wrapped Redis error when the command itself failed), hands
\* out no unlock function and leaves the key's token and ttl as they were; so
\* at most one caller holds the unexpired lock on a key, for every
\* interleaving of TryLock, unlock and expiry.
C12_TryLockExcludes ==
    /\ (lockcall.op = "TryLock" /\ lockcall.key \in DOMAIN lockcall.before) =>
          /\ lockcall.ret \in {ErrLocked, ErrRedis}
          /\ lockcall.unlock = 0
          /\ lockcall.after = lockcall.before
    /\ \A key \in LockKeys : Cardinality(Holders(key)) <= 1

\* A TryLock by one caller was turned away with ErrLocked while another
\* caller held the key.
C12_Witness ==
    /\ lockcall.op = "TryLock"
    /\ lockcall.ret = ErrLocked
    /\ \E u \in Holders(lockcall.key) : u.caller # lockcall.caller

\* C13: an unlock function deletes the key exactly when the key holds the token
\* of the acquisition that returned it, and changes nothing otherwise: a lock
\* re-acquired by someone else after expiry survives the late unlock, and a
\* second call of the same unlock releases nothing acquired in between.
C13_UnlockOnlyOwnToken ==
    lockcall.op = "unlock" =>
        LET own == /\ lockcall.key \in DOMAIN lockcall.before
                   /\ lockcall.before[lockcall.key].token = lockcall.token
        IN  /\ own => lockcall.after =
                         [k \in DOMAIN lockcall.before \ {lockcall.key} |-> lockcall.before[k]]
            /\ ~own => lockcall.after = lockcall.before

\* A's lock expired, B re-acquired the key, and A's late unlock left B's lock
\* in place.
C13_Witness ==
    /\ lockcall.op = "unlock"
    /\ lockcall.key \in DOMAIN lockcall.before
    /\ lockcall.before[lockcall.key].token # lockcall.token
    /\ \E u \in Holders(lockcall.key) : u.caller # lockcall.caller

-----------------------------------------------------------------------------
(* Two requests that run service.Ingest at the same time: POST /api/sources *)
(* and POST /api/sources/{id}/refresh call Ingest directly, each on its own *)
(* goroutine.                                                               *)

\* The feeds a concurrent run fetches: empty, or one entry.
RaceFeeds == {<<>>} \cup { <<e>> : e \in Entries }

RaceNext ==
    \E p \in Procs :
        \/ Begin(p, "s1", "m1", "")
        \/ \E feed \in RaceFeeds : FetchOK(p, feed)
        \/ FetchFail(p)
        \/ IngestStep(p)

SpecRace == Init /\ [][RaceNext]_vars

\* Process p is reconciling source sourceID: it resolved the source row and
\* has not returned.
Reconciling(p, sourceID) ==
    /\ run[p].pc \notin {"idle", "fetch", "source", "done"}
    /\ run[p].sourceID = sourceID

\* C14: no two reconciliation runs for the same source are in progress at the
\* same time; the second request finds the source's refresh lock held and is
\* turned away.
C14_OneRunPerSource ==
    \A sourceID \in DOMAIN sources :
        Cardinality({ p \in Procs : Reconciling(p, sourceID) }) <= 1

-----------------------------------------------------------------------------
(* The embedding client (internal/embedding/voyage.go) and the embedding    *)
(* runs that use it: generateEmbeddings, dispatched by Ingest on a          *)
(* goroutine of its own, and RefreshEmbeddings.  A text is the triple       *)
(* fmt.Sprintf("%s | %s | %s", name, group, label) is built from; a vector  *)
(* is a string, as in the embedding column.                                 *)

batchSize == 1    \* texts per Embed request of a run: const batchSize (128) scaled to the feeds
MaxTasks == 2     \* embedding runs in one behaviour
MaxTexts == 3     \* longest text list passed to EmbedBatch on its own

MediaTypeSerie == 2
defaultBatchSize == 128

mediaTypeLabel(mt) ==
    CASE mt = MediaTypeLivestream -> "Livestream"
      [] mt = MediaTypeMovie -> "Movie"
      [] mt = MediaTypeSerie -> "Serie"
      [] OTHER -> "Unknown"

\* The text generateEmbeddings builds for a feed entry.
EntryText(e) ==
    <<e.Name, IF e.Group # NULL /\ e.Group # "" THEN e.Group ELSE "",
      mediaTypeLabel(e.MediaType)>>

\* The text RefreshEmbeddings builds for a channel row with its group name.
ChannelText(ch) ==
    <<ch.row.name, IF ch.groupName # NULL /\ ch.groupName # "" THEN ch.groupName ELSE "",
      mediaTypeLabel(ch.row.mediaType)>>

\* The remote model: a fixed function from text to vector, distinct on the
\* texts of the feeds.
VoyageEmbedding(text) ==
    CASE text = <<"a", "News", "Livestream">> -> "v1"
      [] text = <<"a", "Kids", "Livestream">> -> "v2"
      [] text = <<"a", "", "Movie">> -> "v3"
      [] text = <<"b", "News", "Livestream">> -> "v4"
      [] OTHER -> "v0"

Perms(n) == { f \in [1..n -> 1..n] : \A i, j \in 1..n : f[i] = f[j] => i = j }

\* embResp.Data of a 200 response: one datum per input text, carrying the
\* 0-based index of the text, listed in any order.
VoyageResponses(texts) ==
    { [k \in 1..Len(texts) |-> [Index |-> f[k] - 1, Embedding |-> VoyageEmbedding(texts[f[k]])]] :
        f \in Perms(Len(texts)) }

\* Vector k of the response goes to position k.
PlaceInArrivalOrder(embeddings, data) ==
    [k \in 1..Len(embeddings) |-> IF k <= Len(data) THEN data[k].Embedding ELSE NULL]

\* for _, d := range embResp.Data { if d.Index < len(embeddings) { embeddings[d.Index] = d.Embedding } }
RECURSIVE Place(_, _)
Place(embeddings, data) ==
    IF Len(data) = 0 THEN embeddings
    ELSE LET d == Head(data)
         IN  Place(IF d.Index < Len(embeddings)
                   THEN [embeddings EXCEPT ![d.Index + 1] = d.Embedding]
                   ELSE embeddings,
                   Tail(data))

\* Client.Embed on a 200 response with the given data: nil for no texts, else
\* len(texts) vectors placed by index.
Embed(texts, data) ==
    IF Len(texts) = 0 THEN <<>>
    ELSE Place([k \in 1..Len(texts) |-> NULL], data)

\* EmbedBatch: if batchSize <= 0 { batchSize = defaultBatchSize }
EffectiveBatchSize(bs) == IF bs <= 0 THEN defaultBatchSize ELSE bs

\* texts[i:end] of the EmbedBatch loop when done vectors are collected.
NextBatch(texts, done, bs) ==
    SubSeq(texts, done + 1,
           IF done + EffectiveBatchSize(bs) > Len(texts) THEN Len(texts)
           ELSE done + EffectiveBatchSize(bs))

ErrEmbed == "EmbedBatch"
ErrStoreEmbeddings == "StoreEmbeddings"
ErrListChannels == "ListChannelsBySource"
ErrCanceled == "context canceled"

\* An embedding run.  kind: generateEmbeddings ("generate"), RefreshEmbeddings
\* ("refresh") or a bare EmbedBatch call ("batch"); origin: who started it;
\* ctx: the context it was given; all: the vectors EmbedBatch has collected
\* (kept after a failure as the record of what had been vectorized); late:
\* whether it has made a call after the shutdown signal; shuffled: whether a
\* response has listed its data out of index order; missing: how many of the
\* ids it wrote had no channel row at the time of the write.
NewTask(kind, origin, ctx, pc, sourceID, ids, texts, bs) ==
    [kind |-> kind, origin |-> origin, ctx |-> ctx, pc |-> pc, sourceID |-> sourceID,
     ids |-> ids, texts |-> texts, batchSize |-> bs, all |-> <<>>, err |-> NULL,
     n |-> 0, late |-> FALSE, shuffled |-> FALSE, embeddings |-> <<>>, missing |-> 0]

\* The context of run t is cancelled: only the process context ever is.
Cancelled(t) == tasks[t].ctx = "process" /\ shutdown

\* Ingest with an embedding client: s.UpdateSourceLastUpdated, then the
\* goroutine running generateEmbeddings on copies of keepIDs and entries
\* under context.Background(), then the successful return (ingest.go:226-254).
IngestDispatch(p) ==
    LET r == run[p]
        texts == [k \in 1..Len(r.entries) |-> EntryText(r.entries[k])]
    IN  /\ r.pc = "stamp"
        /\ Len(tasks) < MaxTasks
        /\ sources' = UpdateSourceLastUpdated(sources, r.sourceID, seqs.now)
        /\ seqs' = [seqs EXCEPT !.now = @ + 1]
        /\ cache' = invalidate(cache, {SourceKey(r.sourceID), SourcesAllKey})
        /\ run' = [run EXCEPT ![p] = Return(Called(@, "UpdateSourceLastUpdated"),
                                             r.sourceID, r.channelCount, NULL)]
        /\ last' = [name |-> r.sourceName, entries |-> r.entries]
        /\ tasks' = IF Len(r.keepIDs) > 0
                    THEN Append(tasks, NewTask("generate", "ingest", "background", "embed",
                                               r.sourceID, r.keepIDs, texts, batchSize))
                    ELSE tasks
        /\ UNCHANGED <<groups, channels, headers, reads, started, call, writes,
                       filterVars, lockVars, queueVars, shutdown>>

\* POST /api/sources/{id}/refresh?embeddings_only=true (server.go:236-287):
\* the source is read through the cache, must be enabled, and
\* RefreshEmbeddings is started on a goroutine under context.Background().
RefreshEmbeddingsOnly(sourceID) ==
    LET res == CachedGetSourceByID(sourceID)
    IN  /\ Len(tasks) < MaxTasks
        /\ res.err = NULL
        /\ res.val.row.enabled
        /\ cache' = [k \in DOMAIN cache \cup {SourceKey(sourceID)} |->
                        IF k \in DOMAIN cache THEN cache[k] ELSE res.val]
        /\ tasks' = Append(tasks, NewTask("refresh", "refresh", "background", "list",
                                          sourceID, <<>>, <<>>, batchSize))
        /\ UNCHANGED <<sources, groups, channels, headers, seqs, run, reads, started, last,
                       call, writes, filterVars, lockVars, queueVars, shutdown>>

RECURSIVE SortedIDs(_)
SortedIDs(S) ==
    IF S = {} THEN <<>>
    ELSE LET m == CHOOSE x \in S : \A y \in S : x <= y
         IN  <<m>> \o SortedIDs(S \ {m})

\* RefreshEmbeddings: s.ListChannelsBySource (ORDER BY c.id), then ids and
\* texts; with no channel it returns (0, nil) (ingest.go:269-290).
TaskList(t) ==
    LET k == tasks[t]
        ids == SortedIDs(ChannelsOf(channels, k.sourceID))
        texts == [j \in 1..Len(ids) |-> ChannelText(ChannelRow(channels, groups, ids[j]))]
    IN  /\ k.pc = "list"
        /\ ~Cancelled(t)
        /\ tasks' = [tasks EXCEPT ![t] =
                       [k EXCEPT !.ids = ids, !.texts = texts,
                                 !.pc = IF Len(ids) = 0 THEN "done" ELSE "embed",
                                 !.late = @ \/ shutdown]]
        /\ UNCHANGED <<core, filterVars, lockVars, queueVars, shutdown>>

\* One iteration of the EmbedBatch loop (voyage.go:146-163): Embed on the next
\* batch answers 200 and its vectors are appended to all.  After the last
\* batch EmbedBatch returns all and the run goes on to store.
TaskEmbed(t) ==
    LET k == tasks[t]
        batch == NextBatch(k.texts, Len(k.all), k.batchSize)
    IN  /\ k.pc = "embed"
        /\ ~Cancelled(t)
        /\ \E data \in VoyageResponses(batch) :
              LET all == k.all \o Embed(batch, data)
              IN  tasks' = [tasks EXCEPT ![t] =
                              [k EXCEPT !.all = all,
                                        !.pc = IF Len(all) < Len(k.texts) THEN "embed"
                                               ELSE IF k.kind = "batch" THEN "done"
                                               ELSE "store",
                                        !.late = @ \/ shutdown,
                                        !.shuffled = @ \/ \E j \in 1..Len(data) :
                                                              data[j].Index # j - 1,
                                        !.embeddings = IF Len(all) < Len(k.texts) THEN <<>>
                                                       ELSE all]]
        /\ UNCHANGED <<core, filterVars, lockVars, queueVars, shutdown>>

\* s.StoreEmbeddings(ctx, ids[i:end], embeddings[i:end]) through CachedStore
\* (ingest.go:312-321, 373-386); the lists of the model fit one chunk.
TaskStore(t) ==
    LET k == tasks[t]
    IN  /\ k.pc = "store"
        /\ ~Cancelled(t)
        /\ Len(k.ids) = Len(k.all)
        /\ channels' = StoreEmbeddings(channels, k.ids, k.all)
        /\ cache' = invalidatePattern(cache, {"search"})
        /\ last' = NoLast
        /\ tasks' = [tasks EXCEPT ![t] =
                       [k EXCEPT !.pc = "done", !.n = Len(k.ids), !.late = @ \/ shutdown,
                                 !.missing = Cardinality({ i \in 1..Len(k.ids) :
                                                             k.ids[i] \notin DOMAIN channels })]]
        /\ UNCHANGED <<sources, groups, headers, seqs, run, reads, started, call, writes,
                       filterVars, lockVars, queueVars, shutdown>>

\* The error a run returns from the call it is at.
TaskError(k) ==
    CASE k.pc = "list" -> ErrListChannels
      [] k.pc = "embed" -> ErrEmbed
      [] OTHER -> ErrStoreEmbeddings

\* An EmbedBatch that notes the error of a batch, puts placeholders for its
\* vectors and goes on with the next batch.
TaskFailSkipsBatch(t) ==
    LET k == tasks[t]
        batch == NextBatch(k.texts, Len(k.all), k.batchSize)
        all == k.all \o [j \in 1..Len(batch) |-> "v0"]
    IN  /\ k.pc \in {"list", "embed", "store"}
        /\ tasks' = [tasks EXCEPT ![t] =
                       IF k.pc = "embed"
                       THEN [k EXCEPT !.err = ErrEmbed, !.all = all,
                                      !.pc = IF Len(all) < Len(k.texts) THEN "embed"
                                             ELSE "done"]
                       ELSE [k EXCEPT !.pc = "done", !.err = TaskError(k)]]
        /\ UNCHANGED <<core, filterVars, lockVars, queueVars, shutdown>>

\* A failed run that also takes back the sync time of its source.
TaskFailUnstamps(t) ==
    /\ tasks[t].pc \in {"list", "embed", "store"}
    /\ tasks' = [tasks EXCEPT ![t] = [@ EXCEPT !.pc = "done", !.err = TaskError(tasks[t])]]
    /\ sources' = UpdateSourceLastUpdated(sources, tasks[t].sourceID, 0)
    /\ UNCHANGED <<groups, channels, headers, seqs, cache, run, reads, started, last, call,
                   writes, filterVars, lockVars, queueVars, shutdown>>

\* The call a run is at returns an error (ListChannelsBySource, Embed of the
\* next batch, StoreEmbeddings): EmbedBatch drops the vectors it has collected,
\* the run returns the error and its caller logs it (ingest.go:248-250,
\* server.go:276-278).
TaskFail(t) ==
    /\ tasks[t].pc \in {"list", "embed", "store"}
    /\ tasks' = [tasks EXCEPT ![t] = [@ EXCEPT !.pc = "done", !.err = TaskError(tasks[t])]]
    /\ UNCHANGED <<core, filterVars, lockVars, queueVars, shutdown>>

\* SIGINT or SIGTERM: signal.NotifyContext cancels the process context.
Shutdown ==
    /\ ~shutdown
    /\ shutdown' = TRUE
    /\ UNCHANGED <<core, filterVars, lockVars, queueVars, tasks>>

\* The feeds of the runs that dispatch embeddings.
EmbFeeds ==
    { <<>>,
      <<ParsedEntry("a", "u1", "News", "i1", NULL), ParsedEntry("a", "u2.mp4", NULL, "i2", NULL)>>,
      <<ParsedEntry("b", "u1", "News", NULL, NULL), ParsedEntry("a", "u1", "Kids", NULL, "h1")>> }

\* The steps of an Ingest that was given an embedding client.
EmbIngestStep(p) ==
    \/ IngestSource(p)
    \/ IngestCancelled(p)
    \/ IngestGroup(p)
    \/ IngestChannel(p)
    \/ IngestHeaders(p)
    \/ IngestStale(p)
    \/ IngestOrphans(p)
    \/ IngestDispatch(p)
    \/ IngestStoreError(p)
    \/ IngestReturned(p)

\* Requests are accepted until the shutdown signal; what is in flight goes on.
EmbNext ==
    \/ ~shutdown /\ Begin(1, "s1", "m1", "")
    \/ \E feed \in EmbFeeds : FetchOK(1, feed)
    \/ FetchFail(1)
    \/ EmbIngestStep(1)
    \/ ~shutdown /\ \E sourceID \in DOMAIN sources : RefreshEmbeddingsOnly(sourceID)
    \/ \E t \in 1..Len(tasks) : TaskList(t)
    \/ \E t \in 1..Len(tasks) : TaskEmbed(t)
    \/ \E t \in 1..Len(tasks) : TaskStore(t)
    \/ \E t \in 1..Len(tasks) : TaskFail(t)
    \/ Shutdown

SpecEmb == Init /\ [][EmbNext]_vars

\* The channel rows without their vectors.
StripEmbedding(chs) == [c \in DOMAIN chs |-> [chs[c] EXCEPT !.embedding = NULL]]

\* A step of an embedding run that was started before.
TaskStepped == Len(tasks') = Len(tasks) /\ tasks' # tasks

\* Ingest starts its embedding run.
Dispatched == Len(tasks') > Len(tasks) /\ tasks'[Len(tasks')].origin = "ingest"

\* C15: Ingest returns its success result in the step that dispatches the
\* embedding run, and no later step of an embedding run, failing or not,
\* changes what Ingest returned, the sources (sync time included), the groups,
\* the headers or anything of a channel but its vector.
C15_EmbeddingNeverFailsIngest ==
    [][ /\ Dispatched =>
              \E p \in Procs : /\ run'[p].pc = "done"
                               /\ run'[p].err = NULL
                               /\ run'[p].retSourceID = tasks'[Len(tasks')].sourceID
        /\ TaskStepped =>
              /\ run' = run
              /\ sources' = sources
              /\ groups' = groups
              /\ headers' = headers
              /\ StripEmbedding(channels') = StripEmbedding(channels) ]_vars

\* The embedding run of an Ingest has failed; the source is stamped and has
\* its channels.
C15_Witness ==
    \E t \in 1..Len(tasks) :
        /\ tasks[t].origin = "ingest"
        /\ tasks[t].pc = "done"
        /\ tasks[t].err \in {ErrEmbed, ErrStoreEmbeddings}
        /\ tasks[t].sourceID \in DOMAIN sources
        /\ sources[tasks[t].sourceID].lastUpdated # 0
        /\ ChannelsOf(channels, tasks[t].sourceID) # {}

\* C16: an embedding run started by Ingest or by an embeddings-only refresh is
\* never cancelled for its request's sake (it ends cancelled only after the
\* shutdown signal), and once the shutdown signal is raised it makes no further
\* call: it stops.
C16_BackgroundRunHonoursShutdownOnly ==
    \A t \in 1..Len(tasks) :
        tasks[t].origin \in {"ingest", "refresh"} =>
            /\ tasks[t].err = ErrCanceled => shutdown
            /\ ~tasks[t].late

\* C17: when the Embed call of a batch fails in an embedding run, the vectors
\* of the batches vectorized before it are in the store.
C17_VectorizedBatchesAreStored ==
    \A t \in 1..Len(tasks) :
        (tasks[t].kind \in {"generate", "refresh"} /\ tasks[t].err = ErrEmbed) =>
            \A j \in 1..Len(tasks[t].all) :
                tasks[t].ids[j] \in DOMAIN channels =>
                    channels[tasks[t].ids[j]].embedding # NULL

\* C30: the step in which an Embed call of a run fails ends the run: it
\* returns ErrEmbed with no vectors from EmbedBatch, nothing stored and every
\* channel as it was; afterwards the run makes no call (no Embed of a later
\* batch, no StoreEmbeddings); and no step of the run before it changed
\* anything of a channel but its vector.
C30_FailedBatchEndsRun ==
    [][ \A t \in 1..Len(tasks) :
            /\ tasks[t].err = ErrEmbed => tasks'[t] = tasks[t]
            /\ (tasks[t].err # ErrEmbed /\ tasks'[t].err = ErrEmbed) =>
                  /\ tasks[t].pc = "embed"
                  /\ tasks'[t].pc = "done"
                  /\ tasks'[t].embeddings = <<>>
                  /\ tasks'[t].n = 0
                  /\ tasks'[t].all = tasks[t].all
                  /\ channels' = channels
            /\ tasks'[t] # tasks[t] =>
                  StripEmbedding(channels') = StripEmbedding(channels) ]_vars

\* The Embed call of the first of two batches has failed in the run of an
\* Ingest whose channels are stored.
C30_Witness ==
    \E t \in 1..Len(tasks) :
        /\ tasks[t].kind = "generate"
        /\ tasks[t].err = ErrEmbed
        /\ Len(tasks[t].all) + EffectiveBatchSize(tasks[t].batchSize) < Len(tasks[t].texts)
        /\ \A j \in 1..Len(tasks[t].ids) : tasks[t].ids[j] \in DOMAIN channels

-----------------------------------------------------------------------------
(* Client.EmbedBatch called on its own, with any text list and batch size.  *)

BatchTexts ==
    { <<"a", "News", "Livestream">>, <<"a", "Kids", "Livestream">>, <<"a", "", "Movie">> }

\* One EmbedBatch call per behaviour: every input is an initial state.  With
\* no text the loop body never runs and the call returns at once.
BatchInit ==
    /\ CoreInit
    /\ FilterInit
    /\ LockInit
    /\ QueueEmpty
    /\ shutdown = FALSE
    /\ \E texts \in SeqsUpTo(BatchTexts, MaxTexts), bs \in -1..MaxTexts :
          tasks = <<NewTask("batch", "caller", "background",
                            IF Len(texts) = 0 THEN "done" ELSE "embed",
                            0, <<>>, texts, bs)>>

BatchNext ==
    \/ TaskEmbed(1)
    \/ TaskFail(1)

SpecBatch == BatchInit /\ [][BatchNext]_vars

\* EmbedBatch returned its vectors without an error.
Embedded(t) == tasks[t].pc \in {"store", "done"} /\ tasks[t].err = NULL

\* C18: a successful EmbedBatch returns len(texts) vectors, vector i being the
\* embedding of texts[i], the same list one Embed call on the whole text list
\* returns whatever order the response lists its data in.
C18_EmbedBatchIntegrity ==
    \A t \in 1..Len(tasks) :
        Embedded(t) =>
            /\ Len(tasks[t].all) = Len(tasks[t].texts)
            /\ \A i \in 1..Len(tasks[t].texts) :
                  tasks[t].all[i] = VoyageEmbedding(tasks[t].texts[i])
            /\ \A data \in VoyageResponses(tasks[t].texts) :
                  tasks[t].all = Embed(tasks[t].texts, data)

\* A call of several batches returned, a response having listed the vectors
\* of unlike texts out of index order.
C18_Witness ==
    \E t \in 1..Len(tasks) :
        /\ Embedded(t)
        /\ tasks[t].shuffled
        /\ EffectiveBatchSize(tasks[t].batchSize) < Len(tasks[t].texts)
        /\ \E i, j \in 1..Len(tasks[t].texts) : tasks[t].texts[i] # tasks[t].texts[j]

-----------------------------------------------------------------------------
(* The embedding job queue (Enqueue, Dequeue over a Redis list) and its     *)
(* consumer, runEmbeddingWorker.  Time passes in seconds while the worker   *)
(* is blocked in BRPop or asleep after a dequeue error.                     *)

MaxJobs == 2            \* Enqueue calls in one behaviour
MaxDequeueErrors == 1   \* Dequeue calls that fail in one behaviour

DequeueTimeout == 5     \* cache.Dequeue(ctx, rds, cache.DefaultQueue, 5*time.Second)
WorkerSleep == 2        \* time.Sleep(2 * time.Second)

\* The jobs a producer may push.
Jobs ==
    { [SourceID |-> sid, SourceName |-> "s", ChannelIDs |-> IF only THEN <<>> ELSE <<1>>,
       EmbeddingsOnly |-> only] :
        sid \in {1, 2}, only \in BOOLEAN }

\* json.Marshal of an EmbeddingJob: the fields under their json names,
\* channel_ids left out when the slice is empty (omitempty).
Marshal(job) ==
    IF Len(job.ChannelIDs) = 0
    THEN [source_id |-> job.SourceID, source_name |-> job.SourceName,
          embeddings_only |-> job.EmbeddingsOnly]
    ELSE [source_id |-> job.SourceID, source_name |-> job.SourceName,
          channel_ids |-> job.ChannelIDs, embeddings_only |-> job.EmbeddingsOnly]

\* json.Unmarshal into an EmbeddingJob: a missing channel_ids leaves the nil slice.
Unmarshal(data) ==
    [SourceID |-> data.source_id, SourceName |-> data.source_name,
     ChannelIDs |-> IF "channel_ids" \in DOMAIN data THEN data.channel_ids ELSE <<>>,
     EmbeddingsOnly |-> data.embeddings_only]

\* LPUSH: the element becomes the leftmost.
LPush(q, x) == <<x>> \o q

\* Pops the leftmost element.
LPop(q) == [elem |-> Head(q), rest |-> Tail(q)]

\* RPOP, the pop of BRPOP: takes the rightmost element.
RPop(q) == [elem |-> q[Len(q)], rest |-> SubSeq(q, 1, Len(q) - 1)]

\* Enqueue(ctx, r, queue, job).  Each element carries the number of the push
\* that made it, which the program does not see.
Enqueue(job) ==
    /\ Len(pushed) < MaxJobs
    /\ queue' = LPush(queue, [n |-> Len(pushed) + 1, data |-> Marshal(job)])
    /\ pushed' = Append(pushed, job)
    /\ UNCHANGED <<core, filterVars, lockVars, embVars, worker, popped>>

\* Dequeue returned a job to the worker (part_001:135-144): a job with
\* EmbeddingsOnly set starts RefreshEmbeddings under the worker's context, any
\* other job is logged and dropped.
Received(elem) ==
    LET job == Unmarshal(elem.data)
    IN  /\ popped' = Append(popped, [n |-> elem.n, job |-> job, left |-> Len(queue) - 1,
                                     task |-> IF job.EmbeddingsOnly THEN Len(tasks) + 1 ELSE 0])
        /\ tasks' = IF job.EmbeddingsOnly
                    THEN Append(tasks, NewTask("refresh", "worker", "process", "list",
                                               job.SourceID, <<>>, <<>>, batchSize))
                    ELSE tasks
        /\ worker' = [worker EXCEPT !.pc = IF job.EmbeddingsOnly THEN "run" ELSE "loop",
                                    !.task = IF job.EmbeddingsOnly THEN Len(tasks) + 1 ELSE 0,
                                    !.ret = "job"]

\* Top of the loop with the context cancelled: the worker returns.
WorkerStop ==
    /\ worker.pc = "loop"
    /\ shutdown
    /\ worker' = [worker EXCEPT !.pc = "stopped"]
    /\ UNCHANGED <<core, filterVars, lockVars, embVars, queue, pushed, popped>>

\* Top of the loop, then Dequeue: BRPOP returns the rightmost element at once
\* when the list has one, else it blocks.
WorkerDequeue ==
    /\ worker.pc = "loop"
    /\ ~shutdown
    /\ IF Len(queue) > 0
       THEN /\ queue' = RPop(queue).rest
            /\ Received(RPop(queue).elem)
       ELSE /\ worker' = [worker EXCEPT !.pc = "blocked", !.waited = 0]
            /\ UNCHANGED <<queue, popped, tasks>>
    /\ UNCHANGED <<core, filterVars, lockVars, shutdown, pushed>>

\* An element is pushed while BRPOP blocks: BRPOP returns it.
DequeuePop ==
    /\ worker.pc = "blocked"
    /\ Len(queue) > 0
    /\ queue' = RPop(queue).rest
    /\ Received(RPop(queue).elem)
    /\ UNCHANGED <<core, filterVars, lockVars, shutdown, pushed>>

\* A Dequeue that starts its wait again at the timeout instead of returning.
DequeueWaitsAgain ==
    /\ worker.pc = "blocked"
    /\ Len(queue) = 0
    /\ worker.waited = DequeueTimeout
    /\ worker' = [worker EXCEPT !.waited = 0]
    /\ UNCHANGED <<core, filterVars, lockVars, embVars, queue, pushed, popped>>

\* BRPOP reaches its timeout (redis.Nil), or the cancelled context ends the
\* call: Dequeue returns (nil, nil) and the worker loops.
DequeueNil ==
    /\ worker.pc = "blocked"
    /\ Len(queue) = 0
    /\ worker.waited = DequeueTimeout \/ shutdown
    /\ worker' = [worker EXCEPT !.pc = "loop", !.ret = "nil"]
    /\ UNCHANGED <<core, filterVars, lockVars, embVars, queue, pushed, popped>>

\* Dequeue returns an error (Redis unreachable, or an element that is not a
\* job): the worker logs it and sleeps.
DequeueError ==
    /\ worker.pc = "loop"
    /\ ~shutdown
    /\ worker.errors < MaxDequeueErrors
    /\ worker' = [worker EXCEPT !.pc = "sleep", !.slept = 0, !.errors = @ + 1,
                                !.ret = "error"]
    /\ UNCHANGED <<core, filterVars, lockVars, embVars, queue, pushed, popped>>

\* time.Sleep(2 * time.Second) is over.
WorkerWake ==
    /\ worker.pc = "sleep"
    /\ worker.slept = WorkerSleep
    /\ worker' = [worker EXCEPT !.pc = "loop"]
    /\ UNCHANGED <<core, filterVars, lockVars, embVars, queue, pushed, popped>>

\* A second passes for the blocked or sleeping worker; BRPOP does not block
\* beyond its timeout.
Second ==
    /\ \/ worker.pc = "blocked" /\ worker.waited < DequeueTimeout
          /\ worker' = [worker EXCEPT !.waited = @ + 1]
       \/ worker.pc = "sleep" /\ worker.slept < WorkerSleep
          /\ worker' = [worker EXCEPT !.slept = @ + 1]
    /\ UNCHANGED <<core, filterVars, lockVars, embVars, queue, pushed, popped>>

\* A call of a run whose context is cancelled returns the context's error.
TaskCancelled(t) ==
    /\ tasks[t].pc \in {"list", "embed", "store"}
    /\ Cancelled(t)
    /\ tasks' = [tasks EXCEPT ![t] = [@ EXCEPT !.pc = "done", !.err = ErrCanceled]]
    /\ UNCHANGED <<core, filterVars, lockVars, queueVars, shutdown>>

\* A worker that pushes a job back on the list when its run returned an error.
WorkerFinishRequeues ==
    /\ worker.pc = "run"
    /\ tasks[worker.task].pc = "done"
    /\ queue' = IF tasks[worker.task].err # NULL
                THEN LPush(queue, [n |-> popped[Len(popped)].n,
                                   data |-> Marshal(popped[Len(popped)].job)])
                ELSE queue
    /\ worker' = [worker EXCEPT !.pc = "loop", !.task = 0]
    /\ UNCHANGED <<core, filterVars, lockVars, embVars, pushed, popped>>

\* RefreshEmbeddings returned to the worker: an error is logged, and the
\* worker loops (part_001:141-145).
WorkerFinish ==
    /\ worker.pc = "run"
    /\ tasks[worker.task].pc = "done"
    /\ worker' = [worker EXCEPT !.pc = "loop", !.task = 0]
    /\ UNCHANGED <<core, filterVars, lockVars, embVars, queue, pushed, popped>>

QueueSources == {1, 2}

\* Two sources, the first with two channels; no embedding yet.
QueueInit ==
    /\ sources = [id \in QueueSources |->
                    [name |-> ToString(id), url |-> "m1", userAgent |-> NULL,
                     enabled |-> TRUE, lastUpdated |-> 1]]
    /\ groups = NoRows
    /\ channels = [id \in {1, 2} |-> PruneRow(id, 1)]
    /\ headers = NoRows
    /\ seqs = [source |-> 3, group |-> 1, channel |-> 3, now |-> 2]
    /\ cache = NoRows
    /\ run = [p \in Procs |-> IdleRun]
    /\ reads = [rd \in Readers |-> IdleRead]
    /\ started = 0
    /\ last = NoLast
    /\ call = NoCall
    /\ writes = 0
    /\ ExtInit

\* The worker's own steps and the steps of the run it is in.
WorkerProgress ==
    \/ WorkerStop
    \/ WorkerDequeue
    \/ DequeuePop
    \/ DequeueNil
    \/ WorkerWake
    \/ Second
    \/ \E t \in 1..Len(tasks) : TaskList(t)
    \/ \E t \in 1..Len(tasks) : TaskEmbed(t)
    \/ \E t \in 1..Len(tasks) : TaskStore(t)
    \/ \E t \in 1..Len(tasks) : TaskCancelled(t)
    \/ WorkerFinish

QueueNext ==
    \/ \E job \in Jobs : Enqueue(job)
    \/ WorkerProgress
    \/ DequeueError
    \/ \E t \in 1..Len(tasks) : TaskFail(t)
    \/ Shutdown

SpecQueue == QueueInit /\ [][QueueNext]_vars

\* The goroutine of the worker is scheduled, Redis and the remote model
\* answer, and time passes: a step of the worker that stays possible is taken.
SpecQueueLive == QueueInit /\ [][QueueNext]_vars /\ WF_vars(WorkerProgress)

\* C19: Dequeue returns the jobs in the order Enqueue pushed them, each once,
\* as it was pushed; the list holds the jobs not yet returned; and a Dequeue on
\* an empty list is never blocked beyond the timeout: it returns (nil, nil).
C19_QueueIsFIFO ==
    /\ \A i \in 1..Len(popped) : popped[i].n = i /\ popped[i].job = pushed[i]
    /\ Len(queue) + Len(popped) = Len(pushed)
    /\ \A k \in 1..Len(queue) : queue[k].n = Len(pushed) - k + 1
    /\ worker.pc = "blocked" => (Len(queue) = 0 => worker.waited <= DequeueTimeout)
    /\ worker.ret = "nil" => worker.waited <= DequeueTimeout

\* Two jobs were in the list together and were returned in push order; a
\* later Dequeue on the empty list returned (nil, nil) at the timeout.
C19_Witness ==
    /\ Len(popped) = 2
    /\ popped[1].left = 1
    /\ worker.pc = "loop"
    /\ worker.ret = "nil"
    /\ worker.waited = DequeueTimeout

\* Job n has been handled to the end: it was returned by Dequeue and, if it
\* asked for embeddings, its RefreshEmbeddings run returned without an error.
Completed(n) ==
    \E i \in 1..Len(popped) :
        /\ popped[i].n = n
        /\ popped[i].task # 0 =>
              tasks[popped[i].task].pc = "done" /\ tasks[popped[i].task].err = NULL

\* C20: with the worker running (no shutdown), every job pushed with Enqueue
\* is eventually handled to the end at least once.
C20_EveryJobCompletes ==
    \A n \in 1..MaxJobs : (Len(pushed) >= n) ~> (Completed(n) \/ shutdown)

\* C21: once the process context is cancelled the worker loop returns,
\* whether it was blocked in Dequeue, asleep after a dequeue error, or in the
\* RefreshEmbeddings run of a job.
C21_WorkerStops == shutdown ~> (worker.pc = "stopped")

\* The worker has returned after a failed Dequeue and after a job whose run
\* was cut short by the cancelled context.
C21_Witness ==
    /\ worker.pc = "stopped"
    /\ worker.errors > 0
    /\ \E i \in 1..Len(popped) :
          popped[i].task # 0 /\ tasks[popped[i].task].err = ErrCanceled

-----------------------------------------------------------------------------
(* Error paths and call order of Ingest, read off the state in which it has *)
(* returned: run[p].ops lists the calls that returned without an error.    *)

\* How often op is in the call list.
Count(ops, op) == Cardinality({ i \in 1..Len(ops) : ops[i] = op })

\* C22: an Ingest that returns an error has left last_updated of every source
\* as it found it (unset on a row it created); an Ingest that returns success
\* has stamped its source, as its last call, after the fetch, one UpsertChannel
\* per entry, RemoveStaleChannels and RemoveOrphanedGroups.
C22_StampOnlyOnSuccess ==
    \A p \in Procs : run[p].pc = "done" =>
        LET r == run[p]
            n == Len(r.ops)
        IN  IF r.err # NULL
            THEN /\ \A id \in DOMAIN sources :
                       sources[id].lastUpdated =
                           IF id \in DOMAIN r.pre.sources THEN r.pre.sources[id].lastUpdated
                           ELSE 0
                 /\ Count(r.ops, "UpdateSourceLastUpdated") = 0
            ELSE /\ sources[r.sourceID].lastUpdated = seqs.now - 1
                 /\ r.sourceID \in DOMAIN r.pre.sources =>
                       r.pre.sources[r.sourceID].lastUpdated < sources[r.sourceID].lastUpdated
                 /\ n >= 5
                 /\ r.ops[1] = "FetchM3U"
                 /\ Count(r.ops, "UpsertChannel") = Len(r.entries)
                 /\ SubSeq(r.ops, n - 2, n) = <<"RemoveStaleChannels", "RemoveOrphanedGroups",
                                                "UpdateSourceLastUpdated">>

\* A re-ingest of a stamped source went through both prune steps and then
\* failed at the stamp.
C22_Witness ==
    \E p \in Procs :
        /\ run[p].pc = "done"
        /\ run[p].err # NULL
        /\ Count(run[p].ops, "RemoveOrphanedGroups") = 1
        /\ run[p].sourceID \in DOMAIN run[p].pre.sources
        /\ run[p].pre.sources[run[p].sourceID].lastUpdated # 0

\* C23: an Ingest that returns because the URL is empty or the fetch failed
\* has made no store call: sources, groups, channels and headers (the sync
\* times with them) are as the run found them, and no row has its name that
\* did not before.
C23_FetchFailureMutatesNothing ==
    \A p \in Procs :
        (run[p].pc = "done" /\ run[p].err \in {"m3u URL is required", "fetch"}) =>
            /\ run[p].ops = <<>>
            /\ Snapshot = run[p].pre
            /\ SourceByName(sources, run[p].sourceName) =
                   SourceByName(run[p].pre.sources, run[p].sourceName)
            /\ run[p].retSourceID = 0
            /\ run[p].retCount = 0

\* The fetch failed for a name that has no source row, in a catalog that
\* holds channels of another source.
C23_Witness ==
    \E p \in Procs :
        /\ run[p].pc = "done"
        /\ run[p].err = "fetch"
        /\ SourceByName(sources, run[p].sourceName) = {}
        /\ DOMAIN channels # {}

\* The phase of Ingest a call belongs to.
Phase(op) ==
    CASE op = "FetchM3U" -> 0
      [] op = "CreateOrGetSource" -> 1
      [] op \in {"GetOrCreateGroup", "UpsertChannel", "UpsertChannelHeaders"} -> 2
      [] op = "RemoveStaleChannels" -> 3
      [] op = "RemoveOrphanedGroups" -> 4
      [] op = "UpdateSourceLastUpdated" -> 5

\* C29: the store calls of one Ingest run return in this order: the source
\* upsert once, then per entry GetOrCreateGroup (if any), UpsertChannel and
\* UpsertChannelHeaders (if any), then RemoveStaleChannels once after one
\* UpsertChannel per entry, then RemoveOrphanedGroups once, right after
\* RemoveStaleChannels, then UpdateSourceLastUpdated once; no upsert follows a
\* prune.
C29_StoreCallOrder ==
    \A p \in Procs :
        LET ops == run[p].ops
            n == Len(ops)
        IN  /\ \A i, j \in 1..n : i < j => Phase(ops[i]) <= Phase(ops[j])
            /\ \A op \in {"FetchM3U", "CreateOrGetSource", "RemoveStaleChannels",
                           "RemoveOrphanedGroups", "UpdateSourceLastUpdated"} :
                   Count(ops, op) <= 1
            /\ \A i \in 1..n :
                   /\ Phase(ops[i]) >= 1 => ops[1] = "FetchM3U"
                   /\ Phase(ops[i]) >= 2 => ops[2] = "CreateOrGetSource"
                   /\ ops[i] = "GetOrCreateGroup" /\ i < n => ops[i + 1] = "UpsertChannel"
                   /\ ops[i] = "UpsertChannelHeaders" => ops[i - 1] = "UpsertChannel"
                   /\ ops[i] = "RemoveStaleChannels" =>
                          Count(ops, "UpsertChannel") = Len(run[p].entries)
                   /\ ops[i] = "RemoveOrphanedGroups" => ops[i - 1] = "RemoveStaleChannels"
                   /\ ops[i] = "UpdateSourceLastUpdated" => ops[i - 1] = "RemoveOrphanedGroups"

\* A run over two entries, one with a group and one with headers, has made
\* every call down to the stamp.
C29_Witness ==
    \E p \in Procs :
        /\ Len(run[p].entries) = 2
        /\ Count(run[p].ops, "GetOrCreateGroup") >= 1
        /\ Count(run[p].ops, "UpsertChannelHeaders") >= 1
        /\ Count(run[p].ops, "UpdateSourceLastUpdated") = 1

\* The run returned from the upsert pass: cancelled at the top of an
\* iteration, or with the error of GetOrCreateGroup, UpsertChannel or
\* UpsertChannelHeaders.
StoppedInUpsertPass(r) ==
    /\ r.pc = "done"
    /\ Count(r.ops, "CreateOrGetSource") = 1
    /\ r.err = "ingest cancelled" \/ (r.err = "store" /\ r.retSourceID = 0)

\* C24: a run that stops in the upsert pass returns an error without a prune
\* call: every channel and group stored before the run is still stored, and
\* every entry upserted before the stop is a stored channel of the source
\* under its (name, URL).
C24_StopInUpsertPassPrunesNothing ==
    \A p \in Procs : StoppedInUpsertPass(run[p]) =>
        LET r == run[p]
        IN  /\ r.err # NULL
            /\ Count(r.ops, "RemoveStaleChannels") = 0
            /\ Count(r.ops, "RemoveOrphanedGroups") = 0
            /\ Count(r.ops, "UpdateSourceLastUpdated") = 0
            /\ DOMAIN r.pre.channels \subseteq DOMAIN channels
            /\ DOMAIN r.pre.groups \subseteq DOMAIN groups
            /\ \A j \in 1..Len(r.keepIDs) :
                   /\ r.keepIDs[j] \in ChannelsOf(channels, r.sourceID)
                   /\ KeyOf(channels[r.keepIDs[j]]) = <<r.entries[j].Name, r.entries[j].URL>>

\* A run was cancelled after its first upsert while the source still held a
\* channel, in a group of its own, that the feed no longer lists.
C24_Witness ==
    \E p \in Procs :
        /\ StoppedInUpsertPass(run[p])
        /\ run[p].err = "ingest cancelled"
        /\ Len(run[p].keepIDs) >= 1
        /\ \E c \in ChannelsOf(run[p].pre.channels, run[p].sourceID) :
              /\ KeyOf(run[p].pre.channels[c]) \notin FeedKeys(run[p].entries)
              /\ run[p].pre.channels[c].groupId # 0
              /\ c \in DOMAIN channels

-----------------------------------------------------------------------------
(* StoreEmbeddings called on its own, with any two lists.                  *)

MaxIDs == 2     \* longest id list and longest vector list of a call

StoreIDs == 1..3                \* channel 3 has no row
StoreVectors == {"v1", "v2"}

ErrLengths == "StoreEmbeddings: channelIDs length != embeddings length"

\* CachedStore.StoreEmbeddings (cached store:227-233) over
\* Postgres.StoreEmbeddings (postgres.go:483-513): the error of the inner call
\* is returned before the search keys are invalidated.
CallStoreEmbeddings(channelIDs, embeddings) ==
    LET err == IF Len(channelIDs) # Len(embeddings) THEN ErrLengths ELSE NULL
    IN  /\ writes < MaxWrites
        /\ writes' = writes + 1
        /\ channels' = StoreEmbeddings(channels, channelIDs, embeddings)
        /\ cache' = IF err = NULL THEN invalidatePattern(cache, {"search"}) ELSE cache
        /\ call' = [NoCall EXCEPT !.op = "StoreEmbeddings", !.channelIDs = channelIDs,
                                   !.embeddings = embeddings, !.before = Snapshot,
                                   !.err = err]
        /\ last' = NoLast
        /\ UNCHANGED <<sources, groups, headers, seqs, run, reads, started, ext>>

StoreNext ==
    \E channelIDs \in SeqsUpTo(StoreIDs, MaxIDs), embeddings \in SeqsUpTo(StoreVectors, MaxIDs) :
        CallStoreEmbeddings(channelIDs, embeddings)

SpecStore == QueueInit /\ [][StoreNext]_vars

\* The last position of id c in the list.
LastIndex(ids, c) == CHOOSE j \in 1..Len(ids) : ids[j] = c /\ \A k \in (j + 1)..Len(ids) : ids[k] # c

\* C25: StoreEmbeddings with lists of different lengths returns an error and
\* leaves every channel as it was; with lists of equal length it returns no
\* error, each listed channel holds the vector at its (last) position in the
\* list with its other columns as before, and every other channel is as it was.
C25_StoreEmbeddingsPositional ==
    call.op = "StoreEmbeddings" =>
        LET before == call.before.channels
            ids == call.channelIDs
        IN  IF Len(ids) # Len(call.embeddings)
            THEN call.err # NULL /\ channels = before
            ELSE /\ call.err = NULL
                 /\ DOMAIN channels = DOMAIN before
                 /\ \A c \in DOMAIN channels :
                        channels[c] =
                            IF c \in Range(ids)
                            THEN [before[c] EXCEPT !.embedding = call.embeddings[LastIndex(ids, c)]]
                            ELSE before[c]

\* A call with two ids and one vector, on a table in which an earlier call
\* stored a vector.
C25_Witness ==
    /\ call.op = "StoreEmbeddings"
    /\ Len(call.channelIDs) = 2
    /\ Len(call.embeddings) = 1
    /\ call.channelIDs[1] \in DOMAIN channels
    /\ \E c \in DOMAIN channels : channels[c].embedding # NULL

-----------------------------------------------------------------------------
(* CreateOrGetSource called on its own, on sources in any state.           *)

\* One source "s1", enabled or not, synced or not, with or without a user
\* agent, holding two channels and a group.
SourceInit ==
    /\ \E enabled \in BOOLEAN, lastUpdated \in {0, 1}, ua \in {NULL, "ua1"} :
          sources = [id \in {1} |->
                        [name |-> "s1", url |-> "m1", userAgent |-> ua,
                         enabled |-> enabled, lastUpdated |-> lastUpdated]]
    /\ groups = [id \in {1} |-> [name |-> "News", image |-> NULL, sourceId |-> 1]]
    /\ channels = [id \in {1, 2} |-> [PruneRow(id, 1) EXCEPT !.groupId = 1]]
    /\ headers = NoRows
    /\ seqs = [source |-> 2, group |-> 2, channel |-> 3, now |-> 2]
    /\ cache = NoRows
    /\ run = [p \in Procs |-> IdleRun]
    /\ reads = [rd \in Readers |-> IdleRead]
    /\ started = 0
    /\ last = NoLast
    /\ call = NoCall
    /\ writes = 0
    /\ ExtInit

\* CachedStore.CreateOrGetSource (cached store:147-154) over
\* Postgres.CreateOrGetSource (postgres.go:39-52).
CallCreateOrGetSource(name, url, userAgent) ==
    LET up == CreateOrGetSource(sources, seqs.source, name, url, userAgent)
    IN  /\ writes < MaxWrites
        /\ writes' = writes + 1
        /\ sources' = up.rows
        /\ seqs' = [seqs EXCEPT !.source = IF up.id = @ THEN @ + 1 ELSE @]
        /\ cache' = invalidate(cache, {SourcesAllKey})
        /\ call' = [NoCall EXCEPT !.op = "CreateOrGetSource", !.args = <<name, url, userAgent>>,
                                   !.before = Snapshot, !.ret = up.id]
        /\ last' = NoLast
        /\ UNCHANGED <<groups, channels, headers, run, reads, started, ext>>

SourceNext ==
    \E name \in {"s1", "s2"}, url \in {"m1", "m2"}, userAgent \in {"", "ua1", "ua2"} :
        CallCreateOrGetSource(name, url, userAgent)

SpecSource == SourceInit /\ [][SourceNext]_vars

\* C26: after CreateOrGetSource(name, url, userAgent) exactly one source row
\* has the name and the call returned its id.  If a row had the name before,
\* it is that row, no row was added, and it differs from before in url and
\* user agent only (enabled and last_updated kept); every other source, every
\* channel and every group is as it was.
C26_CreateOrGetSourceStable ==
    call.op = "CreateOrGetSource" =>
        LET before == call.before.sources
            name == call.args[1]
            had == SourceByName(before, name)
            ua == IF call.args[3] = "" THEN NULL ELSE call.args[3]
        IN  /\ SourceByName(sources, name) = {call.ret}
            /\ had # {} =>
                  /\ had = {call.ret}
                  /\ DOMAIN sources = DOMAIN before
                  /\ sources[call.ret] = [before[call.ret] EXCEPT !.url = call.args[2],
                                                                  !.userAgent = ua]
            /\ \A id \in DOMAIN before \ {call.ret} : sources[id] = before[id]
            /\ DOMAIN sources \ DOMAIN before \subseteq {call.ret}
            /\ channels = call.before.channels
            /\ groups = call.before.groups

\* A call on the name of a disabled, synced source with another URL and
\* another user agent.
C26_Witness ==
    /\ call.op = "CreateOrGetSource"
    /\ call.ret \in DOMAIN call.before.sources
    /\ ~call.before.sources[call.ret].enabled
    /\ call.before.sources[call.ret].lastUpdated # 0
    /\ call.before.sources[call.ret].url # sources[call.ret].url
    /\ call.before.sources[call.ret].userAgent # sources[call.ret].userAgent
    /\ ChannelsOf(channels, call.ret) # {}

-----------------------------------------------------------------------------
(* GetOrCreateGroup called on its own: image is nil (NULL), the empty       *)
(* string or a URL.                                                        *)

GroupImages == {NULL, "", "i1", "i2"}

\* CachedStore.GetOrCreateGroup passes the call through (cached store:237-239)
\* to Postgres.GetOrCreateGroup (postgres.go:162-174).
CallGetOrCreateGroup(sourceID, name, image) ==
    LET up == GetOrCreateGroup(groups, seqs.group, sourceID, name, image)
    IN  /\ writes < MaxWrites
        /\ writes' = writes + 1
        /\ groups' = up.rows
        /\ seqs' = [seqs EXCEPT !.group = IF up.id = @ THEN @ + 1 ELSE @]
        /\ call' = [NoCall EXCEPT !.op = "GetOrCreateGroup", !.sourceID = sourceID,
                                   !.args = <<name, image>>, !.before = Snapshot,
                                   !.ret = up.id]
        /\ last' = NoLast
        /\ UNCHANGED <<sources, channels, headers, cache, run, reads, started, ext>>

GroupNext ==
    \E name \in {"News", "Kids"}, image \in GroupImages : CallGetOrCreateGroup(1, name, image)

SpecGroup == SourceInit /\ [][GroupNext]_vars

\* C27: GetOrCreateGroup on a (name, source) that has a row returns the id of
\* that row, and the row's image afterwards is the image passed if that is
\* non-empty, and the image stored before if the image passed is nil or the
\* empty string.
C27_GroupImageKeptUnlessNonEmpty ==
    call.op = "GetOrCreateGroup" =>
        LET before == call.before.groups
            had == GroupByKey(before, call.args[1], call.sourceID)
        IN  had # {} =>
                /\ had = {call.ret}
                /\ groups[call.ret].image = IF call.args[2] \in {NULL, ""}
                                            THEN before[call.ret].image
                                            ELSE call.args[2]

-----------------------------------------------------------------------------
(* ListChannels: limit, offset and total.  The table holds more channels    *)
(* than the hard cap; names are the ids in fixed width, so that ORDER BY    *)
(* c.name is the order of the ids.                                         *)

DefaultLimit == 50      \* filter.Limit = 50
HardLimit == 200        \* filter.Limit = 200

\* A limit that is only defaulted, never capped.
EffectiveLimitUncapped(limit) == IF limit <= 0 THEN DefaultLimit ELSE limit

\* if filter.Limit <= 0 { 50 }; if filter.Limit > 200 { 200 }
EffectiveLimit(limit) ==
    IF limit <= 0 THEN DefaultLimit
    ELSE IF limit > HardLimit THEN HardLimit
    ELSE limit

\* if filter.Offset < 0 { 0 }
EffectiveOffset(offset) == IF offset < 0 THEN 0 ELSE offset

\* The ids of S in ascending order; every id is below the sequence value.
Ascending(S, below) ==
    LET In(i) == i \in S
    IN  SelectSeq([i \in 1..(below - 1) |-> i], In)

\* Postgres.ListChannels: SELECT COUNT(*) ... WHERE <filter>, then
\* SELECT ... WHERE <filter> ORDER BY c.name LIMIT $n OFFSET $m.  The calls of
\* the model leave Search empty.
PgListChannels(chs, below, f) ==
    LET limit == EffectiveLimit(f.Limit)
        offset == EffectiveOffset(f.Offset)
        matches == { c \in DOMAIN chs : MatchesFilter(chs[c], f) }
        ordered == Ascending(matches, below)
        end == IF offset + limit < Len(ordered) THEN offset + limit ELSE Len(ordered)
    IN  Ok([Channels |-> SubSeq(ordered, offset + 1, end), Total |-> Cardinality(matches)])

ListSizes == {0, 3, 60, 250}
ListLimits == {-1, 0, 1, 50, 51, 200, 201, 1000}
ListOffsets == {-5, 0, 2, 100, 300}

\* Every tenth channel is of source 2, the others of source 1.
ListRow(id) ==
    [PruneRow(id, IF id % 10 = 0 THEN 2 ELSE 1) EXCEPT !.name = ToString(1000 + id)]

ListInit ==
    /\ sources = [id \in QueueSources |->
                    [name |-> ToString(id), url |-> "m1", userAgent |-> NULL,
                     enabled |-> TRUE, lastUpdated |-> 1]]
    /\ groups = NoRows
    /\ \E n \in ListSizes :
          /\ channels = [id \in 1..n |-> ListRow(id)]
          /\ seqs = [source |-> 3, group |-> 1, channel |-> n + 1, now |-> 2]
    /\ headers = NoRows
    /\ cache = NoRows
    /\ run = [p \in Procs |-> IdleRun]
    /\ reads = [rd \in Readers |-> IdleRead]
    /\ started = 0
    /\ last = NoLast
    /\ call = NoCall
    /\ writes = 0
    /\ ExtInit

\* CachedStore.ListChannels (cached store:76-89) on a miss: the inner result
\* is stored under the key of the filter and returned.
CallListChannels(op, asked, f) ==
    LET res == PgListChannels(channels, seqs.channel, f)
    IN  /\ call = NoCall
        /\ ChannelsKey(f) \notin DOMAIN cache
        /\ cache' = [k \in DOMAIN cache \cup {ChannelsKey(f)} |->
                        IF k = ChannelsKey(f) THEN res.val ELSE cache[k]]
        /\ call' = [NoCall EXCEPT !.op = op, !.filter = asked,
                                   !.channelIDs = res.val.Channels, !.ret = res.val.Total]
        /\ UNCHANGED <<sources, groups, channels, headers, seqs, run, reads, started, last,
                       writes, ext>>

\* GET /api/channels (server.go:306-394): the filter from the query, the
\* limit defaulted and capped, then s.store.ListChannels.
handleListChannels(sourceID, limit, offset) ==
    LET asked == [NoFilter EXCEPT !.SourceID = sourceID, !.Limit = limit, !.Offset = offset]
    IN  CallListChannels("handleListChannels", asked,
                         [asked EXCEPT !.Limit = EffectiveLimit(limit)])

\* store.ListChannels called with the filter as it is.
StoreListChannels(sourceID, limit, offset) ==
    LET asked == [NoFilter EXCEPT !.SourceID = sourceID, !.Limit = limit, !.Offset = offset]
    IN  CallListChannels("ListChannels", asked, asked)

ListNext ==
    \/ \E sourceID \in {NilPtr, Ptr(1, 1), Ptr(1, 2)}, limit \in ListLimits,
          offset \in ListOffsets : handleListChannels(sourceID, limit, offset)
    \/ \E sourceID \in {NilPtr, Ptr(1, 1), Ptr(1, 2)}, limit \in ListLimits,
          offset \in ListOffsets : StoreListChannels(sourceID, limit, offset)

SpecList == ListInit /\ [][ListNext]_vars

Listed == call.op \in {"handleListChannels", "ListChannels"}

\* C28: a ListChannels call with requested limit l and offset o returns
\* min(L, max(0, total - O)) channels, where L is 50 for l <= 0, 200 for
\* l > 200 and l otherwise, and O is 0 for o < 0 and o otherwise: never more
\* than 200.  They are the matches that follow the first O matches, in order,
\* and total is the number of all matches of the filter.
C28_ListChannelsLimits ==
    Listed =>
        LET f == call.filter
            L == IF f.Limit <= 0 THEN 50 ELSE IF f.Limit > 200 THEN 200 ELSE f.Limit
            O == IF f.Offset < 0 THEN 0 ELSE f.Offset
            matches == { c \in DOMAIN channels : MatchesFilter(channels[c], f) }
            page == call.channelIDs
            rest == IF call.ret > O THEN call.ret - O ELSE 0
        IN  /\ call.ret = Cardinality(matches)
            /\ Len(page) = IF L < rest THEN L ELSE rest
            /\ Len(page) <= 200
            /\ \A k \in 1..Len(page) :
                   /\ page[k] \in matches
                   /\ Cardinality({ m \in matches : m < page[k] }) = O + k - 1

\* A request for 1000 channels at offset -5 on a source with more than 200
\* channels got the first 200.
C28_Witness ==
    /\ call.op = "handleListChannels"
    /\ call.filter.Limit > 200
    /\ call.filter.Offset < 0
    /\ call.filter.SourceID.addr # 0
    /\ call.ret > 200
    /\ Len(call.channelIDs) = 200
    /\ call.channelIDs[1] = 1

-----------------------------------------------------------------------------
(* Two concurrent runs under the references of the schema.  The migrations  *)
(* make channels.group_id a reference to groups(id) that is set to NULL     *)
(* when the group is deleted, and channel_http_headers.channel_id a         *)
(* reference to channels(id) that is deleted with the channel: a statement  *)
(* that writes an id with no row behind it is refused.                      *)

ErrForeignKey == "foreign key"

\* channels.group_id is NULL (no group, GroupID 0) or the id of a stored group.
GroupReference(grps, groupID) == groupID = 0 \/ groupID \in DOMAIN grps

\* channel_http_headers.channel_id is the id of a stored channel.
ChannelReference(chs, channelID) == channelID \in DOMAIN chs

\* The statement process p is about to run writes only ids that have a row.
ReferencesHold(p) ==
    /\ run[p].pc = "channel" => GroupReference(groups, run[p].GroupID)
    /\ run[p].pc = "headers" => ChannelReference(channels, run[p].cid)

\* s.UpsertChannel or s.UpsertChannelHeaders is refused: the run returns
\* (0, 0, err) and the statement has changed nothing (ingest.go:176-178,
\* 182-184).
IngestForeignKeyError(p) ==
    /\ run[p].pc \in {"channel", "headers"}
    /\ ~ReferencesHold(p)
    /\ run' = [run EXCEPT ![p] = Return(@, 0, 0, ErrForeignKey)]
    /\ UNCHANGED <<sources, groups, channels, headers, seqs, cache, reads, started,
                   last, call, writes, ext>>

RefNext ==
    \E p \in Procs :
        \/ Begin(p, "s1", "m1", "")
        \/ \E feed \in RaceFeeds : FetchOK(p, feed)
        \/ FetchFail(p)
        \/ ReferencesHold(p) /\ IngestStep(p)
        \/ IngestForeignKeyError(p)

SpecRef == Init /\ [][RefNext]_vars

\* No two rows of a table share the key its upsert conflicts on.
NoDuplicateRows ==
    /\ \A a, b \in DOMAIN sources : sources[a].name = sources[b].name => a = b
    /\ \A a, b \in DOMAIN groups :
           groups[a].name = groups[b].name /\ groups[a].sourceId = groups[b].sourceId
               => a = b
    /\ \A a, b \in DOMAIN channels :
           /\ channels[a].name = channels[b].name
           /\ channels[a].sourceId = channels[b].sourceId
           /\ channels[a].url = channels[b].url
           => a = b

\* Two runs that resolved the same source name, group name or channel key
\* hold the same id for it.
SameIDs ==
    \A p, q \in Procs :
        LET r == run[p]
            s == run[q]
        IN  /\ Reconciling(p, r.sourceID) /\ Reconciling(q, s.sourceID)
                => r.sourceID = s.sourceID
            /\ \A g \in DOMAIN r.groupIDs \cap DOMAIN s.groupIDs :
                   (r.groupIDs[g] \in DOMAIN groups /\ s.groupIDs[g] \in DOMAIN groups)
                       => r.groupIDs[g] = s.groupIDs[g]

\* C31: when two concurrent Ingest runs upsert the same source name, the same
\* (name, source) group or the same (name, source, URL) channel, no duplicate
\* row is created, both hold the same id, and no interleaving of their steps
\* makes a run return a constraint violation.
C31_ConcurrentUpsertsNeverFail ==
    /\ NoDuplicateRows
    /\ SameIDs
    /\ \A p \in Procs : run[p].pc = "done" => run[p].err # ErrForeignKey

-----------------------------------------------------------------------------
(* Two interleaved runs on one source, after both have returned.           *)

\* The (name, URL) keys of the channels stored for a source.
StoredKeys(sourceID) == { KeyOf(channels[c]) : c \in ChannelsOf(channels, sourceID) }

\* Both runs have returned success for the same source and neither caller
\* has picked its result up yet.
BothSucceeded ==
    /\ \A p \in Procs : Succeeded(p)
    /\ run[1].retSourceID = run[2].retSourceID

\* C32: two Ingest runs on the same source whose steps interleave are
\* serializable: after both have returned success, the channels stored for
\* the source are the feed of one of the two runs (the one that pruned last),
\* never a set that matches neither feed.
C32_InterleavedRunsSerializable ==
    BothSucceeded =>
        \E p \in Procs : StoredKeys(run[p].retSourceID) = FeedKeys(run[p].entries)

-----------------------------------------------------------------------------
(* The worker and the jobs it has popped.                                   *)

\* The RefreshEmbeddings runs the worker has started.
WorkerTasks == { t \in 1..Len(tasks) : tasks[t].origin = "worker" }

\* C33: the worker handles one popped job at a time; for each popped job it
\* starts RefreshEmbeddings exactly once, for the job's source, when
\* embeddings_only is true, and starts nothing when it is false, whatever
\* channel_ids holds; a job whose run failed or was cut short by shutdown is
\* never pushed back or popped again; and a failure does not end the worker:
\* it returns only on shutdown.
C33_WorkerHandlesEachJobOnce ==
    /\ \A i \in 1..Len(popped) :
           LET job == popped[i].job
               t == popped[i].task
           IN  /\ job.EmbeddingsOnly =>
                      /\ t \in WorkerTasks
                      /\ tasks[t].kind = "refresh"
                      /\ tasks[t].sourceID = job.SourceID
                      /\ i < Len(popped) => tasks[t].pc = "done"
               /\ ~job.EmbeddingsOnly => t = 0
               /\ \A j \in 1..Len(popped) :
                      (popped[j].n = popped[i].n \/ (t # 0 /\ popped[j].task = t)) => j = i
               /\ \A k \in 1..Len(queue) : queue[k].n # popped[i].n
    /\ Cardinality(WorkerTasks) =
           Cardinality({ i \in 1..Len(popped) : popped[i].job.EmbeddingsOnly })
    /\ worker.pc = "run" =>
           /\ Len(popped) > 0
           /\ worker.task = popped[Len(popped)].task
    /\ worker.pc = "stopped" => shutdown

\* The run of the first job failed; the worker went on, popped a job without
\* embeddings_only that names a channel, dropped it, and is back at the top
\* of its loop with the list empty and no shutdown.
C33_Witness ==
    /\ Len(popped) = 2
    /\ popped[1].task # 0
    /\ tasks[popped[1].task].err \notin {NULL, ErrCanceled}
    /\ ~popped[2].job.EmbeddingsOnly
    /\ popped[2].job.ChannelIDs = <<1>>
    /\ Len(tasks) = 1
    /\ Len(queue) = 0
    /\ worker.pc = "loop"
    /\ ~shutdown

-----------------------------------------------------------------------------
(* The id list and the text list of the embedding run Ingest dispatches.    *)

\* Feeds for the alignment of ids and texts: two entries that share the key
\* (a, u1), two entries with different keys, and the latter in reverse order.
AlignFeeds ==
    { <<ParsedEntry("a", "u1", "News", "i1", NULL), ParsedEntry("a", "u1", "Kids", NULL, "h1")>>,
      <<ParsedEntry("a", "u1", "News", "i1", NULL), ParsedEntry("a", "u2.mp4", NULL, "i2", NULL)>>,
      <<ParsedEntry("a", "u2.mp4", NULL, "i2", NULL), ParsedEntry("a", "u1", "News", "i1", NULL)>> }

\* Ingest with an embedding client, one request at a time, and the runs it
\* dispatched.
AlignNext ==
    \/ Begin(1, "s1", "m1", "")
    \/ \E feed \in AlignFeeds : FetchOK(1, feed)
    \/ FetchFail(1)
    \/ EmbIngestStep(1)
    \/ \E t \in 1..Len(tasks) : TaskEmbed(t)
    \/ \E t \in 1..Len(tasks) : TaskStore(t)
    \/ \E t \in 1..Len(tasks) : TaskFail(t)

SpecAlign == Init /\ [][AlignNext]_vars

\* The positions of an id in an id list.
PositionsOf(ids, id) == { j \in 1..Len(ids) : ids[j] = id }

\* C34: in the embedding pass dispatched by Ingest the id list and the entry
\* list have the same length and position i of both refers to the same feed
\* entry: text i is built from entry i (name, group name or empty, media-type
\* label) and id i is the channel entry i upserted to; so the vector the pass
\* stores for a channel id is the embedding of the text of an entry that
\* upserted to that id, also when entries share a (name, URL) key and when the
\* feed is longer than one batch.
C34_IdsAndEntriesAligned ==
    [][ \A t \in 1..Len(tasks') :
          LET k == tasks'[t]
          IN  k.kind = "generate" =>
                /\ Len(k.ids) = Len(k.texts)
                /\ t > Len(tasks) =>
                      \E p \in Procs :
                          /\ run[p].pc = "stamp"
                          /\ run'[p].pc = "done"
                          /\ Len(k.ids) = Len(run[p].entries)
                          /\ \A i \in 1..Len(run[p].entries) :
                                /\ k.texts[i] = EntryText(run[p].entries[i])
                                /\ k.ids[i] \in DOMAIN channels
                                /\ KeyOf(channels[k.ids[i]]) =
                                       <<run[p].entries[i].Name, run[p].entries[i].URL>>
                /\ (t <= Len(tasks) /\ tasks[t].pc = "store" /\ k.pc = "done" /\ k.err = NULL) =>
                      \A i \in 1..Len(k.ids) :
                          k.ids[i] \in DOMAIN channels' =>
                              channels'[k.ids[i]].embedding \in
                                  { VoyageEmbedding(k.texts[j]) : j \in PositionsOf(k.ids, k.ids[i]) }
      ]_vars

\* The pass of a feed whose two entries share the key (a, u1) has stored its
\* vectors, one batch per entry: the channel holds the vector of the second
\* entry's text.
C34_Witness ==
    \E t \in 1..Len(tasks) :
        /\ tasks[t].kind = "generate"
        /\ tasks[t].pc = "done"
        /\ tasks[t].err = NULL
        /\ tasks[t].ids = <<1, 1>>
        /\ Len(tasks[t].texts) > EffectiveBatchSize(tasks[t].batchSize)
        /\ tasks[t].texts[1] # tasks[t].texts[2]
        /\ 1 \in DOMAIN channels
        /\ channels[1].embedding = VoyageEmbedding(tasks[t].texts[2])

-----------------------------------------------------------------------------
(* The write of an embedding run whose channels a later run has pruned.    *)

\* Run t makes its StoreEmbeddings call in this step and the call succeeds.
Stores(t) ==
    /\ t <= Len(tasks)
    /\ tasks[t].pc = "store"
    /\ tasks'[t].pc = "done"
    /\ tasks'[t].err = NULL

\* C35: StoreEmbeddings changes only the embedding of channels that exist at
\* the time of the write and never creates a channel row: the write of a
\* background pass leaves the set of channel rows and everything but the
\* vectors of its own ids as they were, and it is not refused because some of
\* its ids were pruned in the meantime.
C35_StoreEmbeddingsOnlyUpdates ==
    [][ \A t \in 1..Len(tasks') :
          /\ Stores(t) =>
                /\ DOMAIN channels' = DOMAIN channels
                /\ StripEmbedding(channels') = StripEmbedding(channels)
                /\ \A c \in DOMAIN channels :
                       c \notin Range(tasks[t].ids) => channels'[c] = channels[c]
          /\ (tasks'[t].pc = "store" /\ Len(tasks'[t].ids) = Len(tasks'[t].all)) =>
                (ENABLED TaskStore(t))'
      ]_vars

\* The pass of a first run wrote after a second run had pruned one of its
\* two channels: the write succeeded, the pruned channel has no row, and the
\* other one carries its vector.
C35_Witness ==
    \E t \in 1..Len(tasks) :
        /\ tasks[t].kind = "generate"
        /\ tasks[t].pc = "done"
        /\ tasks[t].err = NULL
        /\ tasks[t].missing = 1
        /\ \E i, j \in 1..Len(tasks[t].ids) :
              /\ tasks[t].ids[i] \notin DOMAIN channels
              /\ tasks[t].ids[j] \in DOMAIN channels
              /\ channels[tasks[t].ids[j]].embedding = VoyageEmbedding(tasks[t].texts[j])

-----------------------------------------------------------------------------
(* Postgres.UpdateSource and the refresh of a source by id: the handler     *)
(* reads the source through the cache and hands its name and URL to        *)
(* Ingest, which resolves the source again by name.                        *)

ErrUniqueName == "unique"

\* A store.SourceUpdate is the function of its non-nil fields.
IsSet(fields, f) == f \in DOMAIN fields

\* An UpdateSource that skips the row count: a missing id is not reported.
UpdateSourceIgnoresMissing(srcs, sourceID, fields) ==
    IF sourceID \notin DOMAIN srcs THEN [err |-> NULL, rows |-> srcs]
    ELSE [err |-> NULL,
          rows |-> [srcs EXCEPT ![sourceID] =
                      [name |-> IF IsSet(fields, "Name") THEN fields.Name ELSE @.name,
                       url |-> IF IsSet(fields, "URL") THEN fields.URL ELSE @.url,
                       userAgent |-> IF IsSet(fields, "UserAgent") THEN fields.UserAgent
                                     ELSE @.userAgent,
                       enabled |-> IF IsSet(fields, "Enabled") THEN fields.Enabled
                                   ELSE @.enabled,
                       lastUpdated |-> @.lastUpdated]]]

\* Postgres.UpdateSource: with no field set it returns nil before any
\* statement; else UPDATE sources SET <the set fields> WHERE id = $n, which
\* fails on a name another row holds and reports ErrNotFound when no row was
\* affected.
UpdateSource(srcs, sourceID, fields) ==
    IF DOMAIN fields = {} THEN [err |-> NULL, rows |-> srcs]
    ELSE IF sourceID \notin DOMAIN srcs THEN [err |-> ErrNotFound, rows |-> srcs]
    ELSE IF IsSet(fields, "Name") /\ SourceByName(srcs, fields.Name) \ {sourceID} # {}
    THEN [err |-> ErrUniqueName, rows |-> srcs]
    ELSE [err |-> NULL,
          rows |-> [srcs EXCEPT ![sourceID] =
                      [name |-> IF IsSet(fields, "Name") THEN fields.Name ELSE @.name,
                       url |-> IF IsSet(fields, "URL") THEN fields.URL ELSE @.url,
                       userAgent |-> IF IsSet(fields, "UserAgent") THEN fields.UserAgent
                                     ELSE @.userAgent,
                       enabled |-> IF IsSet(fields, "Enabled") THEN fields.Enabled
                                   ELSE @.enabled,
                       lastUpdated |-> @.lastUpdated]]]

\* CachedStore.UpdateSource (cached store:156-162): the inner call, then the
\* invalidation of source:<id> and sources:all unless it failed.
CachedUpdateSource(sourceID, fields) ==
    LET res == UpdateSource(sources, sourceID, fields)
    IN  /\ writes < MaxWrites
        /\ writes' = writes + 1
        /\ sources' = res.rows
        /\ cache' = IF res.err = NULL
                    THEN invalidate(cache, {SourceKey(sourceID), SourcesAllKey})
                    ELSE cache
        /\ last' = NoLast
        /\ UNCHANGED <<groups, channels, headers, seqs, run, reads, started, call, ext>>

\* PUT /api/sources/{id} bodies: a rename, a new URL, both.
Renames == { [Name |-> "s2"], [URL |-> "m2"], [Name |-> "s2", URL |-> "m2"] }

\* handleRefreshSource up to its Ingest call (server.go:236-294): the source
\* is read through the cache, must exist and be enabled, and Ingest starts
\* with the name, the URL and the user agent of the copy that was read.
handleRefreshSource(p, sourceID) ==
    LET res == CachedGetSourceByID(sourceID)
        src == res.val.row
        r == [IdleRun EXCEPT !.sourceName = IF src.name = "" THEN "m3u" ELSE src.name,
                             !.m3uURL = src.url,
                             !.userAgent = IF src.userAgent = NULL THEN "" ELSE src.userAgent,
                             !.pre = Snapshot, !.prev = last]
    IN  /\ Idle(p)
        /\ call.op = "none"
        /\ started < MaxRuns
        /\ res.err = NULL
        /\ src.enabled
        /\ started' = started + 1
        /\ cache' = [k \in DOMAIN cache \cup {SourceKey(sourceID)} |->
                        IF k \in DOMAIN cache THEN cache[k] ELSE res.val]
        /\ call' = [NoCall EXCEPT !.op = "handleRefreshSource", !.sourceID = sourceID,
                                  !.before = Snapshot]
        /\ run' = [run EXCEPT ![p] =
                     IF src.url = "" THEN Return(r, 0, 0, "m3u URL is required")
                     ELSE [r EXCEPT !.pc = "fetch"]]
        /\ UNCHANGED <<sources, groups, channels, headers, seqs, reads, last, writes, ext>>

\* Ingest has returned to the handler (server.go:294-304): the response
\* carries the id of the request and the count Ingest returned; the id
\* Ingest returned is dropped.  run[p] keeps what Ingest returned.
RefreshRespond(p) ==
    /\ call.op = "handleRefreshSource"
    /\ run[p].pc = "done"
    /\ call' = [call EXCEPT !.op = "refreshed", !.ret = run[p].retCount, !.err = run[p].err]
    /\ UNCHANGED <<sources, groups, channels, headers, seqs, cache, run, reads, started, last,
                   writes, ext>>

RefreshNext ==
    \/ \E id \in DOMAIN sources : handleRefreshSource(1, id)
    \/ \E feed \in RaceFeeds : FetchOK(1, feed)
    \/ FetchFail(1)
    \/ IngestSource(1)
    \/ IngestCancelled(1)
    \/ IngestGroup(1)
    \/ IngestChannel(1)
    \/ IngestHeaders(1)
    \/ IngestStale(1)
    \/ IngestOrphans(1)
    \/ IngestStamp(1)
    \/ IngestStoreError(1)
    \/ RefreshRespond(1)
    \/ \E id \in DOMAIN sources, fields \in Renames : CachedUpdateSource(id, fields)
    \/ \E rd \in Readers, id \in DOMAIN sources : GetSourceByIDMiss(rd, id)
    \/ \E rd \in Readers : CacheSet(rd)

\* One source "s1" with one channel, ingested before; nothing cached, no run.
RefreshInit ==
    /\ sources = UpdateSourceLastUpdated(
                    CreateOrGetSource(NoRows, 1, "s1", "m1", "").rows, 1, 1)
    /\ groups = NoRows
    /\ channels = UpsertChannel(NoRows, 1,
                     [Name |-> "a", URL |-> "u1", Image |-> NULL,
                      MediaType |-> mediaTypeFromURL("u1"), SourceID |-> 1,
                      GroupID |-> 0, Favorite |-> FALSE]).rows
    /\ headers = NoRows
    /\ seqs = [source |-> 2, group |-> 1, channel |-> 2, now |-> 2]
    /\ cache = NoRows
    /\ run = [p \in Procs |-> IdleRun]
    /\ reads = [rd \in Readers |-> IdleRead]
    /\ started = 0
    /\ last = NoLast
    /\ call = NoCall
    /\ writes = 0
    /\ ExtInit

SpecRefresh == RefreshInit /\ [][RefreshNext]_vars

\* C36: a refresh of source id S reconciles into source S and nothing else,
\* whatever a concurrent rename of S or a stale cached copy of S does: the
\* run's source resolution yields id S, no source row is added, and the id
\* the refresh reports is the id whose channels were reconciled.
C36_RefreshReconcilesSourceS ==
    call.op \in {"handleRefreshSource", "refreshed"} =>
        /\ Reconciling(1, run[1].sourceID) => run[1].sourceID = call.sourceID
        /\ DOMAIN sources \subseteq DOMAIN call.before.sources
        /\ (call.op = "refreshed" /\ call.err = NULL) => run[1].retSourceID = call.sourceID

-----------------------------------------------------------------------------
(* Store calls with an id that may have no row, one call after the other.   *)

\* The ids of the calls: source 1 and channels 1 and 2 exist at the start.
CallIDs == 1..3

\* The field sets of UpdateSource calls; the first has no field set.
SourceUpdates ==
    { [f \in {} |-> NULL], [Name |-> "s2"], [Enabled |-> FALSE],
      [URL |-> "m2", UserAgent |-> "ua2"] }

\* CachedStore.UpdateSource (cached store:156-162) over Postgres.UpdateSource.
CallUpdateSource(sourceID, fields) ==
    LET res == UpdateSource(sources, sourceID, fields)
    IN  /\ sources' = res.rows
        /\ cache' = IF res.err = NULL
                    THEN invalidate(cache, {SourceKey(sourceID), SourcesAllKey})
                    ELSE cache
        /\ call' = [NoCall EXCEPT !.op = "UpdateSource", !.sourceID = sourceID,
                                  !.ret = Cardinality(DOMAIN fields),
                                  !.before = Snapshot, !.err = res.err]
        /\ UNCHANGED <<groups, channels, headers>>

\* CachedStore.DeleteSource over Postgres.DeleteSource (postgres.go:448-458):
\* no row affected is ErrNotFound.
CallDeleteSource(sourceID) ==
    \/ /\ CachedDeleteSource(sourceID)
       /\ call' = [NoCall EXCEPT !.op = "DeleteSource", !.sourceID = sourceID,
                                 !.before = Snapshot]
    \/ /\ sourceID \notin DOMAIN sources
       /\ call' = [NoCall EXCEPT !.op = "DeleteSource", !.sourceID = sourceID,
                                 !.before = Snapshot, !.err = ErrNotFound]
       /\ UNCHANGED <<sources, groups, channels, headers, seqs, cache, run, reads, started,
                      last, ext>>

\* CachedStore.ToggleChannelFavorite over Postgres.ToggleChannelFavorite
\* (postgres.go:460-470): no row affected is ErrNotFound.
CallToggleChannelFavorite(channelID, favorite) ==
    \/ /\ CachedToggleChannelFavorite(channelID, favorite)
       /\ call' = [NoCall EXCEPT !.op = "ToggleChannelFavorite", !.channelID = channelID,
                                 !.favorite = favorite, !.before = Snapshot]
    \/ /\ channelID \notin DOMAIN channels
       /\ call' = [NoCall EXCEPT !.op = "ToggleChannelFavorite", !.channelID = channelID,
                                 !.favorite = favorite, !.before = Snapshot,
                                 !.err = ErrNotFound]
       /\ UNCHANGED <<sources, groups, channels, headers, seqs, cache, run, reads, started,
                      last, ext>>

\* Postgres.GetSourceByID and Postgres.GetChannelByID: pgx.ErrNoRows is ErrNotFound.
CallGet(op, id) ==
    LET res == IF op = "GetSourceByID" THEN PgGetSourceByID(sources, id)
               ELSE PgGetChannelByID(channels, groups, id)
    IN  /\ call' = [NoCall EXCEPT !.op = op, !.sourceID = IF op = "GetSourceByID" THEN id ELSE 0,
                                  !.channelID = IF op = "GetChannelByID" THEN id ELSE 0,
                                  !.before = Snapshot, !.err = res.err]
        /\ UNCHANGED <<sources, groups, channels, headers, seqs, cache, run, reads, started,
                       last, ext>>

NotFoundNext ==
    /\ writes < MaxWrites
    /\ writes' = writes + 1
    /\ \/ /\ \E id \in CallIDs, fields \in SourceUpdates : CallUpdateSource(id, fields)
          /\ last' = NoLast
          /\ UNCHANGED <<seqs, run, reads, started, ext>>
       \/ \E id \in CallIDs : CallDeleteSource(id)
       \/ \E id \in CallIDs, favorite \in BOOLEAN : CallToggleChannelFavorite(id, favorite)
       \/ \E id \in CallIDs, op \in {"GetSourceByID", "GetChannelByID"} : CallGet(op, id)

SpecNotFound == SourceInit /\ [][NotFoundNext]_vars

\* The last call named an id that had no row when it was made.
MissingID ==
    \/ call.op \in {"UpdateSource", "DeleteSource", "GetSourceByID"}
          /\ call.sourceID \notin DOMAIN call.before.sources
    \/ call.op \in {"ToggleChannelFavorite", "GetChannelByID"}
          /\ call.channelID \notin DOMAIN call.before.channels

\* C37: UpdateSource, DeleteSource and ToggleChannelFavorite called with an
\* id that does not exist return ErrNotFound and change nothing, for every
\* argument, an UpdateSource with no field set included; GetSourceByID and
\* GetChannelByID on a missing id return ErrNotFound as well.
C37_MissingIdIsNotFound ==
    MissingID => call.err = ErrNotFound /\ Snapshot = call.before

-----------------------------------------------------------------------------
(* CachedStore reads when Redis or the inner store fails.  A read call is   *)
(* one step here; faults names what fails during it: "get" (cache.Get       *)
(* returns an error other than a miss), "inner" (the inner store returns an *)
(* error), "set" (cache.Set returns an error).                             *)

ErrStore == "store"

\* The keys read: a source, a channel and a group list that exist, and a
\* source and a channel that do not.
ReadKeys == { SourceKey(1), SourceKey(2), ChannelKey(1), ChannelKey(3), GroupsKey(1) }

Faults == SUBSET {"get", "inner", "set"}

\* What the inner store answers to the read behind a key under the faults.
InnerAnswer(key, faults) == IF "inner" \in faults THEN Failed(ErrStore) ELSE InnerRead(key)

\* What a cached read returns and the cache it leaves (cached store:40-143):
\* the cached value when cache.Get succeeds; else the inner store's answer,
\* stored with cache.Set when it is not an error and Set does not fail.
ReadThrough(c, key, faults, inner) ==
    IF key \in DOMAIN c /\ "get" \notin faults
    THEN [res |-> Ok(c[key]), cache |-> c]
    ELSE IF inner.err # NULL
    THEN [res |-> inner, cache |-> c]
    ELSE [res |-> inner,
          cache |-> IF "set" \in faults THEN c
                    ELSE [k \in DOMAIN c \cup {key} |-> IF k = key THEN inner.val ELSE c[k]]]

\* A read that returns the error of cache.Set to its caller.
CachedStoreReadFailsOnSet(key, faults) ==
    LET out == ReadThrough(cache, key, faults, InnerAnswer(key, faults))
        miss == key \notin DOMAIN cache \/ "get" \in faults
        res == IF miss /\ "set" \in faults THEN Failed(ErrStore) ELSE out.res
    IN  /\ writes < MaxWrites
        /\ writes' = writes + 1
        /\ cache' = out.cache
        /\ call' = [NoCall EXCEPT !.op = "CachedRead", !.args = <<key>>, !.faults = faults,
                                  !.ret = writes + 1, !.err = res.err,
                                  !.got = IF res.err = NULL THEN [k \in {key} |-> res.val]
                                          ELSE NoRows]
        /\ UNCHANGED <<sources, groups, channels, headers, seqs, run, reads, started, last, ext>>

\* One CachedStore read call, from cache.Get to its return.
CachedStoreRead(key, faults) ==
    LET out == ReadThrough(cache, key, faults, InnerAnswer(key, faults))
    IN  /\ writes < MaxWrites
        /\ writes' = writes + 1
        /\ cache' = out.cache
        /\ call' = [NoCall EXCEPT !.op = "CachedRead", !.args = <<key>>, !.faults = faults,
                                  !.ret = writes + 1, !.err = out.res.err,
                                  !.got = IF out.res.err = NULL
                                          THEN [k \in {key} |-> out.res.val]
                                          ELSE NoRows]
        /\ UNCHANGED <<sources, groups, channels, headers, seqs, run, reads, started, last, ext>>

\* Read calls, renames of the source, and a second reader whose miss and Set
\* are two steps, so that the cache can hold a copy the store no longer has.
FaultNext ==
    \/ \E key \in ReadKeys, faults \in Faults : CachedStoreRead(key, faults)
    \/ \E id \in DOMAIN sources, fields \in Renames : CachedUpdateSource(id, fields)
    \/ \E rd \in Readers, id \in DOMAIN sources : GetSourceByIDMiss(rd, id)
    \/ \E rd \in Readers : CacheSet(rd)

SpecFault == RefreshInit /\ [][FaultNext]_vars

\* This step is a read call.
ReadCall == call'.op = "CachedRead" /\ writes' = writes + 1 /\ call'.ret = writes'

\* C38: a cache failure never fails or alters a read.  When cache.Get misses
\* or errors, the read returns exactly what the inner store returns; a failed
\* cache.Set changes neither the result nor the cache; and when the inner
\* store returns an error, not-found included, that error is returned and
\* nothing is stored in the cache.  No read changes a table.
C38_CacheFailureNeverAltersRead ==
    [][ ReadCall =>
          LET key == call'.args[1]
              faults == call'.faults
              inner == InnerAnswer(key, faults)
              miss == key \notin DOMAIN cache \/ "get" \in faults
          IN  /\ miss =>
                    /\ call'.err = inner.err
                    /\ inner.err = NULL => call'.got = [k \in {key} |-> inner.val]
                    /\ inner.err # NULL => call'.got = NoRows /\ cache' = cache
                    /\ "set" \in faults => cache' = cache
                    /\ \A k \in DOMAIN cache' : k \in DOMAIN cache \/ k = key
              /\ <<sources', groups', channels', headers'>> =
                     <<sources, groups, channels, headers>>
      ]_vars

\* A read of source 1 whose cache.Get and cache.Set both failed returned the
\* renamed row of the store, while the cache still holds the copy a slower
\* reader stored under the old name.
C38_Witness ==
    /\ call.op = "CachedRead"
    /\ call.args = <<SourceKey(1)>>
    /\ call.faults = {"get", "set"}
    /\ call.err = NULL
    /\ SourceKey(1) \in DOMAIN cache
    /\ call.got[SourceKey(1)].row = sources[1]
    /\ cache[SourceKey(1)].row # sources[1]

====
